---- MODULE Spec2Model ----
(***************************************************************************)
(* AuditMaster: reconciliation of a Softland export against a manual       *)
(* budget-control register, with a per-school audit session.               *)
(*                                                                         *)
(* Text is a sequence of one-character strings, so that the normalizers    *)
(* (normalizeRut, normalizeInvoice, parseAmount) and the validator are     *)
(* computed character by character, as the code computes them.  The two    *)
(* accented letters the validator knows are written "e^" and "i^" (upper   *)
(* case "E^", "I^").                                                       *)
(***************************************************************************)
EXTENDS Integers, Sequences, FiniteSets, TLC

\* ------------------------------------------------------------------ text

\* null / undefined: an optional value is <<>> or <<v>>
NULL == <<>>

\* a JavaScript number read from text is <<n>>, or NaN
NaN == <<>>

Digits == {"0", "1", "2", "3", "4", "5", "6", "7", "8", "9"}

Whitespace == {" "}

DigitVal(c) ==
  CASE c = "0" -> 0 [] c = "1" -> 1 [] c = "2" -> 2 [] c = "3" -> 3
    [] c = "4" -> 4 [] c = "5" -> 5 [] c = "6" -> 6 [] c = "7" -> 7
    [] c = "8" -> 8 [] c = "9" -> 9

DigitChar(d) ==
  CASE d = 0 -> "0" [] d = 1 -> "1" [] d = 2 -> "2" [] d = 3 -> "3"
    [] d = 4 -> "4" [] d = 5 -> "5" [] d = 6 -> "6" [] d = 7 -> "7"
    [] d = 8 -> "8" [] d = 9 -> "9"

\* the letters whose case the model knows: <<upper, lower>>
CasePairs ==
  {<<"A", "a">>, <<"B", "b">>, <<"C", "c">>, <<"D", "d">>, <<"E", "e">>,
   <<"F", "f">>, <<"G", "g">>, <<"H", "h">>, <<"I", "i">>, <<"J", "j">>,
   <<"K", "k">>, <<"L", "l">>, <<"M", "m">>, <<"N", "n">>, <<"O", "o">>,
   <<"P", "p">>, <<"Q", "q">>, <<"R", "r">>, <<"S", "s">>, <<"T", "t">>,
   <<"U", "u">>, <<"V", "v">>, <<"W", "w">>, <<"X", "x">>, <<"Y", "y">>,
   <<"Z", "z">>, <<"E^", "e^">>, <<"I^", "i^">>}

toLowerCaseChar(c) ==
  IF \E p \in CasePairs : p[1] = c
  THEN (CHOOSE p \in CasePairs : p[1] = c)[2]
  ELSE c

toUpperCaseChar(c) ==
  IF \E p \in CasePairs : p[2] = c
  THEN (CHOOSE p \in CasePairs : p[2] = c)[1]
  ELSE c

toLowerCase(s) == [i \in 1..Len(s) |-> toLowerCaseChar(s[i])]

toUpperCase(s) == [i \in 1..Len(s) |-> toUpperCaseChar(s[i])]

\* String.prototype.trim
RECURSIVE trimStart(_)
trimStart(s) ==
  IF s # <<>> /\ Head(s) \in Whitespace THEN trimStart(Tail(s)) ELSE s

RECURSIVE trimEnd(_)
trimEnd(s) ==
  IF s # <<>> /\ s[Len(s)] \in Whitespace
  THEN trimEnd(SubSeq(s, 1, Len(s) - 1))
  ELSE s

trim(s) == trimEnd(trimStart(s))

\* s.replace(/[set]/g, '')
removeChars(s, set) == SelectSeq(s, LAMBDA c : c \notin set)

\* s.includes(sub)
includes(s, sub) ==
  \E i \in 0..(Len(s) - Len(sub)) : SubSeq(s, i + 1, i + Len(sub)) = sub

\* s.replace(sub, ''): the first occurrence only
replaceFirst(s, sub) ==
  IF includes(s, sub)
  THEN LET i == CHOOSE j \in 0..(Len(s) - Len(sub)) :
                  /\ SubSeq(s, j + 1, j + Len(sub)) = sub
                  /\ \A h \in 0..(j - 1) : SubSeq(s, h + 1, h + Len(sub)) # sub
       IN SubSeq(s, 1, i) \o SubSeq(s, i + Len(sub) + 1, Len(s))
  ELSE s

\* s.replace(/^0+/, '')
RECURSIVE stripLeadingZeros(_)
stripLeadingZeros(s) ==
  IF s # <<>> /\ Head(s) = "0" THEN stripLeadingZeros(Tail(s)) ELSE s

\* the longest prefix of decimal digits
RECURSIVE digitPrefix(_)
digitPrefix(s) ==
  IF s # <<>> /\ Head(s) \in Digits
  THEN <<Head(s)>> \o digitPrefix(Tail(s))
  ELSE <<>>

RECURSIVE digitsValue(_)
digitsValue(s) ==
  IF s = <<>> THEN 0
  ELSE 10 * digitsValue(SubSeq(s, 1, Len(s) - 1)) + DigitVal(s[Len(s)])

\* parseInt(s, 10): leading whitespace, an optional sign, then digits
parseInt(s) ==
  LET t == trimStart(s)
      neg == t # <<>> /\ Head(t) = "-"
      u == IF t # <<>> /\ Head(t) \in {"-", "+"} THEN Tail(t) ELSE t
      d == digitPrefix(u)
  IN IF d = <<>> THEN NaN
     ELSE IF neg THEN <<0 - digitsValue(d)>> ELSE <<digitsValue(d)>>

\* Number.prototype.toString for an integer
RECURSIVE natToString(_)
natToString(n) ==
  IF n < 10 THEN <<DigitChar(n)>>
  ELSE natToString(n \div 10) \o <<DigitChar(n % 10)>>

numberToString(n) ==
  IF n < 0 THEN <<"-">> \o natToString(0 - n) ELSE natToString(n)

\* a + b on numbers read from text, NaN absorbing
plus(a, b) == IF a = NaN \/ b = NaN THEN NaN ELSE <<a[1] + b[1]>>

\* ----------------------------------------------------------- normalizers

\* a faulty variant of normalizeRut without toUpperCase
normalizeRutKeepingCase(rut) ==
  IF rut = <<>> THEN <<>>
  ELSE trim(removeChars(rut, {".", "-"}))

normalizeRut(rut) ==
  IF rut = <<>> THEN <<>>
  ELSE trim(toUpperCase(removeChars(rut, {".", "-"})))

\* a faulty variant of normalizeInvoice that keeps the leading zeros
normalizeInvoiceKeepingZeros(inv) ==
  IF inv = <<>> THEN <<>>
  ELSE trim(inv)

normalizeInvoice(inv) ==
  IF inv = <<>> THEN <<>>
  ELSE stripLeadingZeros(trim(inv))

\* a faulty variant of parseAmount that keeps the points, so that parseInt
\* stops at the first one
parseAmountKeepingPoints(amt) ==
  IF amt = <<>> THEN 0
  ELSE LET clean == SelectSeq(amt, LAMBDA c : c \in Digits \cup {",", ".", "-"})
           n == parseInt(clean)
       IN IF n = NaN THEN 0 ELSE n[1]

parseAmount(amt) ==
  IF amt = <<>> THEN 0
  ELSE LET clean == SelectSeq(amt, LAMBDA c : c \in Digits \cup {",", ".", "-"})
           chileanFormat == removeChars(clean, {"."})
           n == parseInt(chileanFormat)
       IN IF n = NaN THEN 0 ELSE n[1]

\* ------------------------------------------------------------- validator

REQUIRED_FIELDS == <<"factura", "rut", "monto", "nombre", "fecha", "tipo">>

\* a faulty variant of cell without the || '' fallback: String(undefined)
cellStringified(row, mapping, field) ==
  IF field \in DOMAIN mapping /\ mapping[field] \in DOMAIN row
  THEN row[mapping[field]]
  ELSE <<"u", "n", "d", "e", "f", "i", "n", "e", "d">>

\* row[mapping[field]] || ''
cell(row, mapping, field) ==
  IF field \in DOMAIN mapping /\ mapping[field] \in DOMAIN row
  THEN row[mapping[field]]
  ELSE <<>>

\* a faulty variant of invalidKeywords: the list of the earlier patch,
\* which has no unaccented 'periodo'
invalidKeywordsOfPatch ==
  {<<"t", "o", "t", "a", "l">>,
   <<"s", "u", "b", "t", "o", "t", "a", "l">>,
   <<"s", "u", "m", "a">>,
   <<"l", "i", "b", "r", "o", " ", "d", "e", " ", "c", "o", "m", "p", "r", "a">>,
   <<"o", "r", "d", "e", "n", "a", "d", "o">>,
   <<"d", "e", "s", "d", "e", ":">>,
   <<"h", "a", "s", "t", "a", ":">>,
   <<"m", "o", "n", "e", "d", "a", ":">>,
   <<"p", "e", "r", "i^", "o", "d", "o">>,
   <<"r", "e", "s", "u", "m", "e", "n">>}

invalidKeywords ==
  {<<"t", "o", "t", "a", "l">>,
   <<"s", "u", "b", "t", "o", "t", "a", "l">>,
   <<"s", "u", "m", "a">>,
   <<"l", "i", "b", "r", "o", " ", "d", "e", " ", "c", "o", "m", "p", "r", "a">>,
   <<"o", "r", "d", "e", "n", "a", "d", "o">>,
   <<"d", "e", "s", "d", "e", ":">>,
   <<"h", "a", "s", "t", "a", ":">>,
   <<"m", "o", "n", "e", "d", "a", ":">>,
   <<"p", "e", "r", "i^", "o", "d", "o">>,
   <<"p", "e", "r", "i", "o", "d", "o">>,
   <<"r", "e", "s", "u", "m", "e", "n">>}

invalidTypes ==
  {<<"6", "1">>, <<"5", "6">>, <<"5", "2">>, <<"6", "0">>,
   <<"n", "c">>, <<"n", "/", "c">>,
   <<"n", "o", "t", "a", "c", "r", "e", "d", "i", "t", "o">>,
   <<"n", "o", "t", "a", "d", "e", "b", "i", "t", "o">>,
   <<"c", "r", "e", "d", "i", "t", "o">>,
   <<"d", "e", "b", "i", "t", "o">>,
   <<"d", "e^", "b", "i", "t", "o">>,
   <<"c", "r", "e^", "d", "i", "t", "o">>}

\* a faulty variant of textNaN: the spelling String(NaN) gives
textNaNCapitalised == <<"N", "a", "N">>

textNaN == <<"n", "a", "n">>

textNull == <<"n", "u", "l", "l">>

isValidDataRow(row, mapping) ==
  LET factura == trim(cell(row, mapping, "factura"))
      rut == trim(cell(row, mapping, "rut"))
      monto == trim(cell(row, mapping, "monto"))
      nombre == toLowerCase(trim(cell(row, mapping, "nombre")))
      tipo == toLowerCase(trim(cell(row, mapping, "tipo")))
      rutClean == normalizeRut(rut)
      tipoClean == removeChars(replaceFirst(tipo, <<".", "0">>), Whitespace)
      montoNumerico == parseAmount(monto)
      rutSinDV == SubSeq(rutClean, 1, Len(rutClean) - 1)
      dv == SubSeq(rutClean, Len(rutClean), Len(rutClean))
  IN IF factura = <<>> \/ factura = <<"0">> \/ factura = textNaN \/ factura = textNull
       THEN FALSE
     ELSE IF rutClean = <<>> \/ Len(rutClean) < 7 THEN FALSE
     ELSE IF monto = <<>> \/ monto = <<"0">> \/ monto = textNaN \/ monto = textNull
       THEN FALSE
     ELSE IF nombre = <<>> \/ nombre = textNaN \/ nombre = textNull THEN FALSE
     ELSE IF \E kw \in invalidKeywords : includes(nombre, kw) THEN FALSE
     ELSE IF Len(nombre) < 3 THEN FALSE
     ELSE IF \E t \in invalidTypes : tipoClean = t \/ includes(tipoClean, t) THEN FALSE
     ELSE IF /\ includes(nombre, <<"n", "o", "t", "a">>)
             /\ \/ includes(nombre, <<"c", "r", "e", "d", "i", "t", "o">>)
                \/ includes(nombre, <<"c", "r", "e^", "d", "i", "t", "o">>)
       THEN FALSE
     ELSE IF montoNumerico < 0 THEN FALSE
     ELSE IF Len(rutSinDV) < 7 \/ Len(rutSinDV) > 9 THEN FALSE
     ELSE IF ~(\A i \in 1..Len(rutSinDV) : rutSinDV[i] \in Digits) THEN FALSE
     ELSE IF ~(dv[1] \in Digits \cup {"K"}) THEN FALSE
     ELSE TRUE

\* ------------------------------------------------------------ row mapper

\* the mapping of the derived fields passed to the filter of processRows
valMapping ==
  [factura |-> "factura_val", rut |-> "rut_val", monto |-> "monto_val",
   nombre |-> "nombre_val", fecha |-> "fecha_val", tipo |-> "tipo_val"]

\* a faulty variant of mapRow: monto_val keeps the text of the cell
mapRowKeepingText(row, mapping, idx) ==
  [factura_val |-> cell(row, mapping, "factura"),
   rut_val |-> cell(row, mapping, "rut"),
   monto_val |-> cell(row, mapping, "monto"),
   nombre_val |-> cell(row, mapping, "nombre"),
   fecha_val |-> cell(row, mapping, "fecha"),
   tipo_val |-> cell(row, mapping, "tipo"),
   _key |-> normalizeRut(cell(row, mapping, "rut")) \o <<"_">>
              \o normalizeInvoice(cell(row, mapping, "factura")),
   _originalIndex |-> idx]

\* the object built by the .map callback of processRows for row number idx
mapRow(row, mapping, idx) ==
  [factura_val |-> cell(row, mapping, "factura"),
   rut_val |-> cell(row, mapping, "rut"),
   monto_val |->
     numberToString(parseAmount(
       IF cell(row, mapping, "monto") = <<>> THEN <<"0">>
       ELSE cell(row, mapping, "monto"))),
   nombre_val |-> cell(row, mapping, "nombre"),
   fecha_val |-> cell(row, mapping, "fecha"),
   tipo_val |-> cell(row, mapping, "tipo"),
   _key |-> normalizeRut(cell(row, mapping, "rut")) \o <<"_">>
              \o normalizeInvoice(cell(row, mapping, "factura")),
   _originalIndex |-> idx]

processRows(rows, mapping) ==
  SelectSeq([i \in 1..Len(rows) |-> mapRow(rows[i], mapping, i - 1)],
            LAMBDA r : isValidDataRow(r, valMapping))

\* ------------------------------------------------- reconciliation engine

\* a faulty variant of sumMonto: the reducer drops its accumulator,
\* records.reduce((sum, r) => parseInt(r.monto_val), 0)
sumMontoOfLast(records) ==
  IF records = <<>> THEN <<0>>
  ELSE parseInt(records[Len(records)].monto_val)

RECURSIVE sumMonto(_)
\* records.reduce((sum, r) => sum + parseInt(r.monto_val), 0)
sumMonto(records) ==
  IF records = <<>> THEN <<0>>
  ELSE plus(sumMonto(SubSeq(records, 1, Len(records) - 1)),
            parseInt(records[Len(records)].monto_val))

\* a faulty variant of filterMissing: the records are kept in reverse order
filterMissingReversed(softlandProcessed, controlKeys) ==
  LET kept == SelectSeq(softlandProcessed, LAMBDA sRow : sRow._key \notin controlKeys)
  IN [i \in 1..Len(kept) |-> kept[Len(kept) + 1 - i]]

\* a faulty variant of filterMissing: the negation is dropped,
\* softlandProcessed.filter(sRow => controlKeys.has(sRow._key))
filterMatched(softlandProcessed, controlKeys) ==
  SelectSeq(softlandProcessed, LAMBDA sRow : sRow._key \in controlKeys)

\* a faulty variant of filterMissing that keeps one record for each key
filterMissingDistinct(softlandProcessed, controlKeys) ==
  LET kept == SelectSeq(softlandProcessed, LAMBDA sRow : sRow._key \notin controlKeys)
      firstOfKey == {i \in 1..Len(kept) :
                       \A j \in 1..(i - 1) : kept[j]._key # kept[i]._key}
      RECURSIVE pick(_)
      pick(i) == IF i > Len(kept) THEN <<>>
                 ELSE (IF i \in firstOfKey THEN <<kept[i]>> ELSE <<>>) \o pick(i + 1)
  IN pick(1)

\* softlandProcessed.filter(sRow => !controlKeys.has(sRow._key))
filterMissing(softlandProcessed, controlKeys) ==
  SelectSeq(softlandProcessed, LAMBDA sRow : sRow._key \notin controlKeys)

\* a faulty variant of runAnalysis: matchedCount counts the Control records
runAnalysisCountingControl(softlandFile, controlFile, softlandMapping, controlMapping) ==
  LET softlandProcessed == processRows(softlandFile.data, softlandMapping)
      controlProcessed == processRows(controlFile.data, controlMapping)
      controlKeys == {controlProcessed[i]._key : i \in 1..Len(controlProcessed)}
      missingRecords == filterMissing(softlandProcessed, controlKeys)
      totalMissingAmount == sumMonto(missingRecords)
  IN [softlandTotal |-> Len(softlandProcessed),
      controlTotal |-> Len(controlProcessed),
      matchedCount |-> Len(controlProcessed),
      missingCount |-> Len(missingRecords),
      missingAmount |->
        IF totalMissingAmount = NaN THEN NaN ELSE totalMissingAmount[1],
      missingRecords |-> missingRecords,
      controlRecords |-> controlProcessed,
      softlandRecords |-> softlandProcessed]

\* the AnalysisResult runAnalysis stores for two files and their mappings
runAnalysis(softlandFile, controlFile, softlandMapping, controlMapping) ==
  LET softlandProcessed == processRows(softlandFile.data, softlandMapping)
      controlProcessed == processRows(controlFile.data, controlMapping)
      controlKeys == {controlProcessed[i]._key : i \in 1..Len(controlProcessed)}
      missingRecords == filterMissing(softlandProcessed, controlKeys)
      totalMissingAmount == sumMonto(missingRecords)
  IN [softlandTotal |-> Len(softlandProcessed),
      controlTotal |-> Len(controlProcessed),
      matchedCount |-> Len(softlandProcessed) - Len(missingRecords),
      missingCount |-> Len(missingRecords),
      missingAmount |->
        IF totalMissingAmount = NaN THEN NaN ELSE totalMissingAmount[1],
      missingRecords |-> missingRecords,
      controlRecords |-> controlProcessed,
      softlandRecords |-> softlandProcessed]

\* ------------------------------------------------- audit state reducer

AuditStatus == {"pending", "verified", "failed"}

\* a faulty variant of handleAuditAction: a key that has a status keeps it
handleAuditActionOnce(auditState, ids, status) ==
  [k \in DOMAIN auditState \cup ids |->
     IF k \in DOMAIN auditState THEN auditState[k] ELSE status]

\* a faulty variant of handleAuditAction: marking a key with the status it
\* already holds takes the decision back
handleAuditActionToggling(auditState, ids, status) ==
  LET undone == {k \in ids \cap DOMAIN auditState : auditState[k] = status}
  IN [k \in (DOMAIN auditState \cup ids) \ undone |->
        IF k \in ids THEN status ELSE auditState[k]]

\* ids.forEach(id => { newState[id] = status; })
handleAuditAction(auditState, ids, status) ==
  [k \in DOMAIN auditState \cup ids |->
     IF k \in ids THEN status ELSE auditState[k]]

\* result.missingRecords.find(r => r['_key'] === id)
findByKey(records, id) ==
  IF \E i \in 1..Len(records) : records[i]._key = id
  THEN <<records[CHOOSE i \in 1..Len(records) :
                  /\ records[i]._key = id
                  /\ \A j \in 1..(i - 1) : records[j]._key # id]>>
  ELSE NULL

\* a faulty variant of autoStatus: the register must hold the invoice under
\* the same tax ID
autoStatusByKey(result, record) ==
  LET found == \E i \in 1..Len(result.controlRecords) :
                 /\ normalizeInvoice(result.controlRecords[i].factura_val)
                      = normalizeInvoice(record.factura_val)
                 /\ normalizeRut(result.controlRecords[i].rut_val)
                      = normalizeRut(record.rut_val)
  IN IF found THEN "failed" ELSE "verified"

\* the status handleBulkAutoCheck gives a record of missingRecords
autoStatus(result, record) ==
  LET targetInv == normalizeInvoice(record.factura_val)
      found == \E i \in 1..Len(result.controlRecords) :
                 normalizeInvoice(result.controlRecords[i].factura_val) = targetInv
  IN IF found THEN "failed" ELSE "verified"

\* a faulty variant of handleBulkAutoCheck: a key that matches no record of
\* missingRecords is confirmed
handleBulkAutoCheckOfAll(auditState, result, ids) ==
  [k \in DOMAIN auditState \cup ids |->
     IF k \in ids
     THEN IF findByKey(result.missingRecords, k) # NULL
          THEN autoStatus(result, findByKey(result.missingRecords, k)[1])
          ELSE "verified"
     ELSE auditState[k]]

handleBulkAutoCheck(auditState, result, ids) ==
  LET decided == {id \in ids : findByKey(result.missingRecords, id) # NULL}
  IN [k \in DOMAIN auditState \cup decided |->
        IF k \in decided
        THEN autoStatus(result, findByKey(result.missingRecords, k)[1])
        ELSE auditState[k]]

\* ------------------------------------------- derived metrics of the report

\* Object.values(auditState).filter(s => s === status).length
RECURSIVE countStatus(_, _)
countStatus(auditState, status) ==
  IF DOMAIN auditState = {} THEN 0
  ELSE LET k == CHOOSE x \in DOMAIN auditState : TRUE
           rest == [y \in DOMAIN auditState \ {k} |-> auditState[y]]
       IN (IF auditState[k] = status THEN 1 ELSE 0) + countStatus(rest, status)

RECURSIVE sumParseAmount(_)
\* records.reduce((sum, r) => sum + parseAmount(r['monto_val']), 0)
sumParseAmount(records) ==
  IF records = <<>> THEN 0
  ELSE sumParseAmount(SubSeq(records, 1, Len(records) - 1))
         + parseAmount(records[Len(records)].monto_val)

\* auditState[key] !== 'failed'
notFailed(auditState, key) ==
  ~(key \in DOMAIN auditState /\ auditState[key] = "failed")

\* a faulty variant of metrics: the amount of the dismissed records stays in
\* realMissingAmount
metricsOfAllRecords(result, auditState) ==
  [verified |-> countStatus(auditState, "verified"),
   failed |-> countStatus(auditState, "failed"),
   realMissing |-> result.missingCount - countStatus(auditState, "failed"),
   realMissingAmount |-> sumParseAmount(result.missingRecords)]

\* the four figures DiscrepancyReport computes when it renders
metrics(result, auditState) ==
  [verified |-> countStatus(auditState, "verified"),
   failed |-> countStatus(auditState, "failed"),
   realMissing |-> result.missingCount - countStatus(auditState, "failed"),
   realMissingAmount |->
     sumParseAmount(SelectSeq(result.missingRecords,
                              LAMBDA r : notFailed(auditState, r._key)))]

\* ------------------------------------------------------ the session's files

\* the columns of the two spreadsheets of the session
Headers == <<"Folio", "Rut", "Total", "Proveedor", "Fecha", "Tipo">>

\* the column a user maps each required field to
headerFor ==
  [factura |-> "Folio", rut |-> "Rut", monto |-> "Total",
   nombre |-> "Proveedor", fecha |-> "Fecha", tipo |-> "Tipo"]

SoftRow1 ==
  [Folio |-> <<"1", "0", "0">>,
   Rut |-> <<"1", "2", ".", "3", "4", "5", ".", "6", "7", "8", "-", "5">>,
   Total |-> <<"1", ".", "0", "0", "0">>,
   Proveedor |-> <<"A", "C", "M", "E", " ", "S", "P", "A">>,
   Fecha |-> <<"1", "5", "/", "0", "3", "/", "2", "0", "2", "4">>,
   Tipo |-> <<"3", "3">>]

SoftRow2 ==
  [Folio |-> <<"0", "1", "0", "0">>,
   Rut |-> <<"1", "2", "3", "4", "5", "6", "7", "8", "-", "5">>,
   Total |-> <<"2", ".", "0", "0", "0">>,
   Proveedor |-> <<"A", "C", "M", "E", " ", "S", "P", "A">>,
   Fecha |-> <<"2", "0", "2", "4", "-", "0", "3", "-", "2", "0">>,
   Tipo |-> <<"3", "3">>]

SoftRow3 ==
  [Folio |-> <<"7">>,
   Rut |-> <<"9", "8", "7", "6", "5", "4", "3", "-", "k">>,
   Total |-> <<"5", "0", "0">>,
   Proveedor |-> <<"S", "U", "R", " ", "L", "T", "D", "A">>,
   Fecha |-> <<"0", "2", "/", "0", "4", "/", "2", "0", "2", "4">>,
   Tipo |-> <<"3", "3">>]

SoftRow4 ==
  [Folio |-> <<"5", "5">>,
   Rut |-> <<"1", "2", ".", "3", "4", "5", ".", "6", "7", "8", "-", "5">>,
   Total |-> <<"$", "3", ".", "0", "0", "0">>,
   Proveedor |-> <<"A", "C", "M", "E", " ", "S", "P", "A">>,
   Fecha |-> <<"0", "5", "/", "0", "4", "/", "2", "0", "2", "4">>,
   Tipo |-> <<"3", "4">>]

SoftRow5 ==
  [Folio |-> <<"9">>,
   Rut |-> <<"1", "2", ".", "3", "4", "5", ".", "6", "7", "8", "-", "5">>,
   Total |-> <<"-", "8", "0", "0">>,
   Proveedor |-> <<"A", "C", "M", "E", " ", "S", "P", "A">>,
   Fecha |-> <<"0", "6", "/", "0", "4", "/", "2", "0", "2", "4">>,
   Tipo |-> <<"6", "1">>]

SoftRow6 ==
  [Folio |-> <<"1">>,
   Rut |-> <<"1", "2", "3", "4", "5", "6", "7", "8", "-", "5">>,
   Total |-> <<"1", "0", ".", "0", "0", "0">>,
   Proveedor |-> <<"A", "C", "M", "E", " ", "S", "P", "A">>,
   Fecha |-> <<"0", "1", "/", "0", "1", "/", "2", "0", "2", "4">>,
   Tipo |-> <<"3", "3">>]

CtrlRow1 ==
  [Folio |-> <<"0", "1", "0", "0">>,
   Rut |-> <<"1", "1", ".", "1", "1", "1", ".", "1", "1", "1", "-", "1">>,
   Total |-> <<"1", ".", "0", "0", "0">>,
   Proveedor |-> <<"A", "C", "M", "E", " ", "S", "P", "A">>,
   Fecha |-> <<"1", "5", "/", "0", "3", "/", "2", "0", "2", "4">>,
   Tipo |-> <<"3", "3">>]

CtrlRow2 ==
  [Folio |-> <<"0", "0", "7">>,
   Rut |-> <<"9", ".", "8", "7", "6", ".", "5", "4", "3", "-", "K">>,
   Total |-> <<"5", "0", "0">>,
   Proveedor |-> <<"S", "U", "R", " ", "L", "T", "D", "A">>,
   Fecha |-> <<"0", "2", "/", "0", "4", "/", "2", "0", "2", "4">>,
   Tipo |-> <<"3", "3">>]

CtrlRow3 ==
  [Folio |-> <<"1">>,
   Rut |-> <<"1", "2", ".", "3", "4", "5", ".", "6", "7", "8", "-", "5">>,
   Total |-> <<"6", ".", "5", "0", "0">>,
   Proveedor |-> <<"T", "o", "t", "a", "l", " ", "p", "e", "r", "i^", "o", "d", "o">>,
   Fecha |-> <<>>,
   Tipo |-> <<>>]

\* a Softland export: two rows with one key (invoice 100 / 0100), a row the
\* register holds, a row it does not, and a credit note
SoftlandFile ==
  [name |-> "softland.xlsx",
   data |-> <<SoftRow1, SoftRow2, SoftRow3, SoftRow4, SoftRow5>>,
   headers |-> Headers]

\* a control register: invoice 0100 under another tax ID, the row Softland
\* holds too, and a totals row
ControlFile ==
  [name |-> "control.csv",
   data |-> <<CtrlRow1, CtrlRow2, CtrlRow3>>,
   headers |-> Headers]

\* -------------------------------------------------------------- the session

SCHOOLS == <<"panguipulli", "pullinque">>

SchoolIds == {SCHOOLS[i] : i \in 1..Len(SCHOOLS)}

Sources == {"softland", "control"}

Tabs == {"dashboard", "softland", "control"}

INITIAL_SCHOOL_STATE ==
  [softlandFile |-> NULL,
   controlFile |-> NULL,
   softlandMapping |-> <<>>,
   controlMapping |-> <<>>,
   analysis |-> NULL,
   auditState |-> <<>>,
   softlandSearch |-> <<>>,
   controlSearch |-> <<>>,
   activeTab |-> "dashboard"]

\* the state of a DiscrepancyReport and of its DataTable when they mount;
\* aiPending and exportsPending count the requests the component awaits
INITIAL_REPORT ==
  [modalRecord |-> NULL,
   selectedRows |-> {},
   aiReport |-> "",
   loadingAi |-> FALSE,
   exporting |-> FALSE,
   aiPending |-> FALSE,
   exportsPending |-> 0]

\* the loading flag of the two FileUploader components when they mount
INITIAL_UPLOADERS == [softland |-> FALSE, control |-> FALSE]

\* the most file reads, and the most exports, in flight at a time
MaxInFlight == 2

VARIABLES
  selectedSchool,   \* App: the id of the selected school
  allSchoolsData,   \* App: SchoolState of every school
  uploaders,        \* FileUploader.loading of the two uploaders
  reads,            \* the file reads in flight, in the order they started
  report,           \* component state of DiscrepancyReport and its DataTable
  view,             \* the figures the mounted DiscrepancyReport shows
  last,             \* the handler that ran last, with its arguments
  call              \* a call of a pure function: its arguments and its result

vars ==
  <<selectedSchool, allSchoolsData, uploaders, reads, report, view, last, call>>

currentData == allSchoolsData[selectedSchool]

fileField(source) == IF source = "softland" THEN "softlandFile" ELSE "controlFile"

mappingField(source) ==
  IF source = "softland" THEN "softlandMapping" ELSE "controlMapping"

\* setAllSchoolsData(prev => ({...prev, [school]: {...prev[school], ...updates}}))
updateSchool(data, school, updates) ==
  [data EXCEPT ![school] =
     [f \in DOMAIN data[school] |->
        IF f \in DOMAIN updates THEN updates[f] ELSE data[school][f]]]

\* App renders DiscrepancyReport for the selected school
ReportMounted(data, sel) ==
  data[sel].analysis # NULL /\ data[sel].activeTab = "dashboard"

\* App renders the two uploaders, the mappers and the run button
UploadMounted(data, sel) == data[sel].analysis = NULL

\* what DiscrepancyReport shows after App renders data for school sel
render(data, sel) ==
  IF ReportMounted(data, sel)
  THEN <<metrics(data[sel].analysis[1], data[sel].auditState)>>
  ELSE NULL

Op(name) ==
  [op |-> name, ids |-> {}, status |-> "", school |-> selectedSchool,
   alert |-> FALSE]

OpOn(name, ids, status) ==
  [op |-> name, ids |-> ids, status |-> status, school |-> selectedSchool,
   alert |-> FALSE]

\* a handler that shows an alert
OpAlert(name, status) ==
  [op |-> name, ids |-> {}, status |-> status, school |-> selectedSchool,
   alert |-> TRUE]

\* One step of the session: the new App state, then React's reconciliation.
\* A component that stays at its place in the tree keeps its state (rep, upl);
\* one that unmounts loses it, and the requests it awaits no longer reach it.
Commit(sel, data, rep, upl, rds, l) ==
  /\ selectedSchool' = sel
  /\ allSchoolsData' = data
  /\ report' =
       IF ReportMounted(allSchoolsData, selectedSchool) /\ ReportMounted(data, sel)
       THEN rep
       ELSE INITIAL_REPORT
  /\ uploaders' =
       IF UploadMounted(allSchoolsData, selectedSchool) /\ UploadMounted(data, sel)
       THEN upl
       ELSE INITIAL_UPLOADERS
  /\ reads' =
       IF UploadMounted(allSchoolsData, selectedSchool) /\ UploadMounted(data, sel)
       THEN rds
       ELSE [i \in 1..Len(rds) |-> [rds[i] EXCEPT !.attached = FALSE]]
  /\ view' = render(data, sel)
  /\ last' = l
  /\ call' = call

\* the page behind the comparison modal takes no click while it is open
PageEnabled == report.modalRecord = NULL

Init ==
  /\ selectedSchool = SCHOOLS[1]
  /\ allSchoolsData = [s \in SchoolIds |-> INITIAL_SCHOOL_STATE]
  /\ uploaders = INITIAL_UPLOADERS
  /\ reads = <<>>
  /\ report = INITIAL_REPORT
  /\ view = NULL
  /\ last = [op |-> "init", ids |-> {}, status |-> "", school |-> SCHOOLS[1],
             alert |-> FALSE]
  /\ call = NULL

\* ---- sidebar

\* a faulty variant of SelectSchool with the effect of the first version,
\* which resets the state it shows whenever selectedSchool changes
SelectSchoolResetting(id) ==
  /\ PageEnabled
  /\ id # selectedSchool
  /\ Commit(id, updateSchool(allSchoolsData, id, INITIAL_SCHOOL_STATE),
            report, uploaders, reads, Op("selectSchool"))

SelectSchool(id) ==
  /\ PageEnabled
  /\ id # selectedSchool
  /\ Commit(id, allSchoolsData, report, uploaders, reads, Op("selectSchool"))

SetActiveTab(tab) ==
  /\ PageEnabled
  /\ currentData.analysis # NULL
  /\ tab # currentData.activeTab
  /\ Commit(selectedSchool,
            updateSchool(allSchoolsData, selectedSchool, [activeTab |-> tab]),
            report, uploaders, reads, Op("setActiveTab"))

\* ---- FileUploader

removeAt(seq, i) == SubSeq(seq, 1, i - 1) \o SubSeq(seq, i + 1, Len(seq))

\* handleFile with a .csv, .xlsx or .xls file: the read starts
HandleFile(source, file) ==
  /\ PageEnabled
  /\ UploadMounted(allSchoolsData, selectedSchool)
  /\ currentData[fileField(source)] = NULL
  /\ Len(reads) < MaxInFlight
  /\ Commit(selectedSchool, allSchoolsData, report,
            [uploaders EXCEPT ![source] = TRUE],
            Append(reads, [school |-> selectedSchool, source |-> source,
                           file |-> file, attached |-> TRUE]),
            Op("handleFile"))

\* handleFile with a file of another type: an alert, and loading is false
HandleFileUnsupported(source) ==
  /\ PageEnabled
  /\ UploadMounted(allSchoolsData, selectedSchool)
  /\ currentData[fileField(source)] = NULL
  /\ Commit(selectedSchool, allSchoolsData, report,
            [uploaders EXCEPT ![source] = FALSE], reads,
            OpAlert("handleFileUnsupported", ""))

\* the read ends with rows: onFileLoaded(file) of the render that started it
ReadLoaded(i) ==
  /\ i \in 1..Len(reads)
  /\ LET r == reads[i]
     IN Commit(selectedSchool,
               updateSchool(allSchoolsData, r.school,
                            IF r.source = "softland"
                            THEN [softlandFile |-> <<r.file>>]
                            ELSE [controlFile |-> <<r.file>>]),
               report,
               IF r.attached THEN [uploaders EXCEPT ![r.source] = FALSE]
               ELSE uploaders,
               removeAt(reads, i),
               [op |-> "readLoaded", ids |-> {}, status |-> "",
                school |-> r.school, alert |-> FALSE])

\* the extension handleFile reads off the name of the file
extensionOf == ("softland.xlsx" :> "xlsx") @@ ("control.csv" :> "csv")

\* processExcel: the workbook is empty or cannot be read: an alert, and
\* loading is false
ReadFailed(i) ==
  /\ i \in 1..Len(reads)
  /\ extensionOf[reads[i].file.name] = "xlsx"
  /\ LET r == reads[i]
     IN Commit(selectedSchool, allSchoolsData, report,
               IF r.attached THEN [uploaders EXCEPT ![r.source] = FALSE]
               ELSE uploaders,
               removeAt(reads, i),
               [op |-> "readFailed", ids |-> {}, status |-> "",
                school |-> r.school, alert |-> TRUE])

\* processCSV: the file cannot be read; Papa.parse was given no error
\* callback, so nothing runs and loading stays as it is
ReadError(i) ==
  /\ i \in 1..Len(reads)
  /\ extensionOf[reads[i].file.name] = "csv"
  /\ Commit(selectedSchool, allSchoolsData, report, uploaders,
            removeAt(reads, i),
            [op |-> "readError", ids |-> {}, status |-> "",
             school |-> reads[i].school, alert |-> FALSE])

\* the remove button of a loaded file: onFileLoaded(null)
RemoveFile(source) ==
  /\ PageEnabled
  /\ UploadMounted(allSchoolsData, selectedSchool)
  /\ currentData[fileField(source)] # NULL
  /\ Commit(selectedSchool,
            updateSchool(allSchoolsData, selectedSchool,
                         IF source = "softland" THEN [softlandFile |-> NULL]
                         ELSE [controlFile |-> NULL]),
            report, uploaders, reads, Op("removeFile"))

\* ---- ColumnMapper

\* setMapping({ ...mapping, [reqKey]: selectedHeader })
handleChange(mapping, reqKey, selectedHeader) ==
  [k \in DOMAIN mapping \cup {reqKey} |->
     IF k = reqKey THEN selectedHeader ELSE mapping[k]]

\* REQUIRED_FIELDS.every(field => mapping[field.key])
allMapped(mapping) ==
  \A i \in 1..Len(REQUIRED_FIELDS) :
     REQUIRED_FIELDS[i] \in DOMAIN mapping /\ mapping[REQUIRED_FIELDS[i]] # ""

\* the user fills the mapper of the register, then the one of Softland, each
\* from its first select to its last and each field with the column that holds it
SetMapping(source, i) ==
  /\ PageEnabled
  /\ UploadMounted(allSchoolsData, selectedSchool)
  /\ currentData[fileField(source)] # NULL
  /\ source = "softland" => allMapped(currentData.controlMapping)
  /\ i \in 1..Len(REQUIRED_FIELDS)
  /\ LET mapping == currentData[mappingField(source)]
         m == handleChange(mapping, REQUIRED_FIELDS[i], headerFor[REQUIRED_FIELDS[i]])
     IN /\ DOMAIN mapping = {REQUIRED_FIELDS[j] : j \in 1..(i - 1)}
        /\ Commit(selectedSchool,
                  updateSchool(allSchoolsData, selectedSchool,
                               IF source = "softland" THEN [softlandMapping |-> m]
                               ELSE [controlMapping |-> m]),
                  report, uploaders, reads, Op("setMapping"))

\* ---- the run button

RunAnalysis ==
  /\ PageEnabled
  /\ UploadMounted(allSchoolsData, selectedSchool)
  /\ currentData.softlandFile # NULL
  /\ currentData.controlFile # NULL
  /\ Commit(selectedSchool,
            updateSchool(allSchoolsData, selectedSchool,
              [analysis |-> <<runAnalysis(currentData.softlandFile[1],
                                          currentData.controlFile[1],
                                          currentData.softlandMapping,
                                          currentData.controlMapping)>>]),
            report, uploaders, reads, Op("runAnalysis"))

\* ---- DiscrepancyReport and its DataTable

result == currentData.analysis[1]

\* the rows of the table of discrepancies, none while there is no analysis
tableRows == IF currentData.analysis = NULL THEN <<>> ELSE result.missingRecords

\* the row ids of the table: row['_key'] of every row of missingRecords
rowIds(records) == {records[i]._key : i \in 1..Len(records)}

setAuditState(newState, rep, l) ==
  Commit(selectedSchool,
         updateSchool(allSchoolsData, selectedSchool, [auditState |-> newState]),
         rep, uploaders, reads, l)

\* the checkbox of a row
ToggleSelectRow(id) ==
  /\ PageEnabled
  /\ ReportMounted(allSchoolsData, selectedSchool)
  /\ id \in rowIds(result.missingRecords)
  /\ Commit(selectedSchool, allSchoolsData,
            [report EXCEPT !.selectedRows =
               IF id \in @ THEN @ \ {id} ELSE @ \cup {id}],
            uploaders, reads, Op("toggleSelectRow"))

\* the checkbox of the header
ToggleSelectAll ==
  /\ PageEnabled
  /\ ReportMounted(allSchoolsData, selectedSchool)
  /\ Commit(selectedSchool, allSchoolsData,
            [report EXCEPT !.selectedRows =
               IF Cardinality(@) = Len(result.missingRecords) THEN {}
               ELSE @ \cup rowIds(result.missingRecords)],
            uploaders, reads, Op("toggleSelectAll"))

\* the two buttons of a row: onAuditAction([rowId], status)
RowAuditAction(id, status) ==
  /\ PageEnabled
  /\ ReportMounted(allSchoolsData, selectedSchool)
  /\ id \in rowIds(result.missingRecords)
  /\ setAuditState(handleAuditAction(currentData.auditState, {id}, status),
                   report, OpOn("handleAuditAction", {id}, status))

\* the two buttons of the selection bar; the selection is emptied
BulkAuditAction(status) ==
  /\ PageEnabled
  /\ ReportMounted(allSchoolsData, selectedSchool)
  /\ report.selectedRows # {}
  /\ setAuditState(handleAuditAction(currentData.auditState, report.selectedRows, status),
                   [report EXCEPT !.selectedRows = {}],
                   OpOn("handleAuditAction", report.selectedRows, status))

\* Auto-Analizar of the selection bar; the selection stays
AutoSmartCheck ==
  /\ PageEnabled
  /\ ReportMounted(allSchoolsData, selectedSchool)
  /\ report.selectedRows # {}
  /\ setAuditState(handleBulkAutoCheck(currentData.auditState, result, report.selectedRows),
                   report, OpOn("handleBulkAutoCheck", report.selectedRows, ""))

\* the detail button of a row: setModalRecord(row)
OpenModal(i) ==
  /\ PageEnabled
  /\ ReportMounted(allSchoolsData, selectedSchool)
  /\ i \in 1..Len(result.missingRecords)
  /\ Commit(selectedSchool, allSchoolsData,
            [report EXCEPT !.modalRecord = <<result.missingRecords[i]>>],
            uploaders, reads, Op("openModal"))

CloseModal ==
  /\ report.modalRecord # NULL
  /\ Commit(selectedSchool, allSchoolsData,
            [report EXCEPT !.modalRecord = NULL],
            uploaders, reads, Op("closeModal"))

\* controlData.find(c => normalizeInvoice(c['factura_val']) === targetInv)
hasCandidate(record, controlData) ==
  \E i \in 1..Len(controlData) :
     normalizeInvoice(controlData[i].factura_val) = normalizeInvoice(record.factura_val)

\* the buttons of the modal: onMarkStatus(status); onClose()
ModalMark(status) ==
  /\ report.modalRecord # NULL
  /\ status = "failed" => hasCandidate(report.modalRecord[1], result.controlRecords)
  /\ setAuditState(handleAuditAction(currentData.auditState,
                                     {report.modalRecord[1]._key}, status),
                   [report EXCEPT !.modalRecord = NULL],
                   OpOn("handleAuditAction", {report.modalRecord[1]._key}, status))

\* a faulty variant of HandleClearData: the audit decisions survive the reset
HandleClearDataKeepingAudit(confirmed) ==
  /\ PageEnabled
  /\ ReportMounted(allSchoolsData, selectedSchool)
  /\ Commit(selectedSchool,
            IF confirmed
            THEN updateSchool(allSchoolsData, selectedSchool,
                              [INITIAL_SCHOOL_STATE EXCEPT
                                 !.auditState = currentData.auditState])
            ELSE allSchoolsData,
            report, uploaders, reads,
            OpOn("handleClearData", {}, IF confirmed THEN "confirmed" ELSE "declined"))

\* Limpiar / Nuevo, with the answer to confirm()
HandleClearData(confirmed) ==
  /\ PageEnabled
  /\ ReportMounted(allSchoolsData, selectedSchool)
  /\ Commit(selectedSchool,
            IF confirmed
            THEN updateSchool(allSchoolsData, selectedSchool, INITIAL_SCHOOL_STATE)
            ELSE allSchoolsData,
            report, uploaders, reads,
            OpOn("handleClearData", {}, IF confirmed THEN "confirmed" ELSE "declined"))

\* ---- report generation and export

\* Array.prototype.sort with (a, b) => parseAmount(b.monto_val) - parseAmount(a.monto_val):
\* descending by amount, stable
RECURSIVE sortByAmountDesc(_)
sortByAmountDesc(records) ==
  IF records = <<>> THEN <<>>
  ELSE LET sorted == sortByAmountDesc(SubSeq(records, 1, Len(records) - 1))
           r == records[Len(records)]
           n == Cardinality({i \in 1..Len(sorted) :
                  parseAmount(sorted[i].monto_val) >= parseAmount(r.monto_val)})
       IN SubSeq(sorted, 1, n) \o <<r>> \o SubSeq(sorted, n + 1, Len(sorted))

\* generateAiReport up to its await: loadingAi is set and result.missingRecords
\* is sorted where it is
GenerateAiReport ==
  /\ PageEnabled
  /\ ReportMounted(allSchoolsData, selectedSchool)
  /\ ~report.loadingAi
  /\ Commit(selectedSchool,
            updateSchool(allSchoolsData, selectedSchool,
              [analysis |->
                 <<[result EXCEPT !.missingRecords = sortByAmountDesc(@)]>>]),
            [report EXCEPT !.loadingAi = TRUE, !.aiPending = TRUE],
            uploaders, reads, Op("generateAiReport"))

\* the collaborator answers, or fails
AiReportDone(ok) ==
  /\ report.aiPending
  /\ Commit(selectedSchool, allSchoolsData,
            [report EXCEPT !.aiReport = IF ok THEN "text" ELSE "error",
                           !.loadingAi = FALSE, !.aiPending = FALSE],
            uploaders, reads,
            OpOn("aiReportDone", {}, IF ok THEN "ok" ELSE "error"))

\* exportToExcel up to its await
ExportToExcel ==
  /\ PageEnabled
  /\ ReportMounted(allSchoolsData, selectedSchool)
  /\ report.exportsPending < MaxInFlight
  /\ Commit(selectedSchool, allSchoolsData,
            [report EXCEPT !.exporting = TRUE, !.exportsPending = @ + 1],
            uploaders, reads, Op("exportToExcel"))

\* the workbook is written, or writing it throws
ExportDone(ok) ==
  /\ report.exportsPending > 0
  /\ Commit(selectedSchool, allSchoolsData,
            [report EXCEPT !.exporting = FALSE, !.exportsPending = @ - 1],
            uploaders, reads,
            IF ok THEN OpOn("exportDone", {}, "ok")
            ELSE OpAlert("exportDone", "error"))

\* exportToExcel of index.tsx, from the click to the settling of its promise:
\* it has no exporting flag and no try, so a failure rejects the promise
\* and nothing else runs
ExportToExcelLatest(ok) ==
  /\ PageEnabled
  /\ ReportMounted(allSchoolsData, selectedSchool)
  /\ Commit(selectedSchool, allSchoolsData, report, uploaders, reads,
            OpOn("exportToExcelLatest", {}, IF ok THEN "ok" ELSE "error"))

\* ---- the specifications

\* the file the user of the session drops on each uploader
sessionFile(source) == IF source = "softland" THEN SoftlandFile ELSE ControlFile

\* One school, from the empty page to the audit of its discrepancies.
Next ==
  \/ \E tab \in Tabs : SetActiveTab(tab)
  \/ \E source \in Sources : HandleFile(source, sessionFile(source))
  \/ \E source \in Sources : HandleFileUnsupported(source)
  \/ \E i \in 1..MaxInFlight : ReadLoaded(i)
  \/ \E i \in 1..MaxInFlight : ReadFailed(i)
  \/ \E i \in 1..MaxInFlight : ReadError(i)
  \/ \E source \in Sources : RemoveFile(source)
  \/ \E source \in Sources, i \in 1..Len(REQUIRED_FIELDS) : SetMapping(source, i)
  \/ RunAnalysis
  \/ \E id \in rowIds(tableRows) : ToggleSelectRow(id)
  \/ ToggleSelectAll
  \/ \E id \in rowIds(tableRows), status \in {"verified", "failed"} :
       RowAuditAction(id, status)
  \/ \E status \in {"verified", "failed"} : BulkAuditAction(status)
  \/ AutoSmartCheck
  \/ \E i \in 1..Len(tableRows) : OpenModal(i)
  \/ CloseModal
  \/ \E status \in {"verified", "failed"} : ModalMark(status)
  \/ \E confirmed \in BOOLEAN : HandleClearData(confirmed)

Spec == Init /\ [][Next]_vars

\* the mapping a mapper holds once each of its selects has its column
completeMapping ==
  [k \in {REQUIRED_FIELDS[i] : i \in 1..Len(REQUIRED_FIELDS)} |-> headerFor[k]]

\* a school whose two files are loaded and mapped, before the run
prepared(softland, control) ==
  [INITIAL_SCHOOL_STATE EXCEPT !.softlandFile = <<softland>>,
                               !.controlFile = <<control>>,
                               !.softlandMapping = completeMapping,
                               !.controlMapping = completeMapping]

\* the session with the given state of every school, the first one selected
Prepared(data) ==
  /\ selectedSchool = SCHOOLS[1]
  /\ allSchoolsData = data
  /\ uploaders = INITIAL_UPLOADERS
  /\ reads = <<>>
  /\ report = INITIAL_REPORT
  /\ view = NULL
  /\ last = [op |-> "init", ids |-> {}, status |-> "", school |-> SCHOOLS[1],
             alert |-> FALSE]
  /\ call = NULL

\* The report of one school: the run, the audit of the discrepancies, the
\* generation of the AI report and the export.
InitReport ==
  Prepared([s \in SchoolIds |->
              IF s = SCHOOLS[1] THEN prepared(SoftlandFile, ControlFile)
              ELSE INITIAL_SCHOOL_STATE])

NextReport ==
  \/ RunAnalysis
  \/ \E tab \in Tabs : SetActiveTab(tab)
  \/ ToggleSelectAll
  \/ \E id \in rowIds(tableRows), status \in {"verified", "failed"} :
       RowAuditAction(id, status)
  \/ \E status \in {"verified", "failed"} : BulkAuditAction(status)
  \/ AutoSmartCheck
  \/ GenerateAiReport
  \/ \E ok \in BOOLEAN : AiReportDone(ok)
  \/ ExportToExcel
  \/ \E ok \in BOOLEAN : ExportDone(ok)
  \/ \E ok \in BOOLEAN : ExportToExcelLatest(ok)
  \/ \E confirmed \in BOOLEAN : HandleClearData(confirmed)

SpecReport == InitReport /\ [][NextReport]_vars

\* Two schools, each with its own two files: the first misses invoice 100,
\* the second invoice 55.
SchoolFiles ==
  [panguipulli |->
     [softland |-> [name |-> "softland.xlsx", data |-> <<SoftRow1, SoftRow3>>,
                    headers |-> Headers],
      control |-> [name |-> "control.csv", data |-> <<CtrlRow2>>,
                   headers |-> Headers]],
   pullinque |->
     [softland |-> [name |-> "softland.xlsx", data |-> <<SoftRow4, SoftRow3>>,
                    headers |-> Headers],
      control |-> [name |-> "control.csv", data |-> <<CtrlRow2>>,
                   headers |-> Headers]]]

InitSchools ==
  Prepared([s \in SchoolIds |->
              prepared(SchoolFiles[s].softland, SchoolFiles[s].control)])

NextSchools ==
  \/ \E id \in SchoolIds : SelectSchool(id)
  \/ \E tab \in Tabs : SetActiveTab(tab)
  \/ RunAnalysis
  \/ \E id \in rowIds(tableRows) : ToggleSelectRow(id)
  \/ ToggleSelectAll
  \/ \E id \in rowIds(tableRows), status \in {"verified", "failed"} :
       RowAuditAction(id, status)
  \/ \E status \in {"verified", "failed"} : BulkAuditAction(status)
  \/ AutoSmartCheck
  \/ \E confirmed \in BOOLEAN : HandleClearData(confirmed)

SpecSchools == InitSchools /\ [][NextSchools]_vars

\* a second export of Softland, without the rows the first one repeats
SoftlandFileCorrected ==
  [name |-> "softland.xlsx", data |-> <<SoftRow1, SoftRow3>>, headers |-> Headers]

\* the files the user has at hand for each uploader
filesAtHand(source) ==
  IF source = "softland" THEN {SoftlandFile, SoftlandFileCorrected}
  ELSE {ControlFile}

\* One school whose register is loaded and whose two mappers are filled: the
\* user drops one export of Softland or the other, also while a read is in
\* flight, runs the analysis as soon as both files are there, and clears.
InitReplace ==
  Prepared([s \in SchoolIds |->
              IF s = SCHOOLS[1]
              THEN [prepared(SoftlandFile, ControlFile) EXCEPT !.softlandFile = NULL]
              ELSE INITIAL_SCHOOL_STATE])

NextReplace ==
  \/ \E source \in Sources : \E file \in filesAtHand(source) : HandleFile(source, file)
  \/ \E i \in 1..MaxInFlight : ReadLoaded(i)
  \/ \E i \in 1..MaxInFlight : ReadFailed(i)
  \/ \E source \in Sources : RemoveFile(source)
  \/ RunAnalysis
  \/ \E tab \in Tabs : SetActiveTab(tab)
  \/ \E confirmed \in BOOLEAN : HandleClearData(confirmed)

SpecReplace == InitReplace /\ [][NextReplace]_vars

\* Two schools from their files to their audit: the user switches between
\* them at any moment, also while a read is in flight, starts a read only
\* when none is in flight, and after a clear maps the register again.
NextIsolation ==
  \/ \E id \in SchoolIds : SelectSchool(id)
  \/ \E tab \in Tabs : SetActiveTab(tab)
  \/ \E source \in Sources :
       reads = <<>> /\ HandleFile(source, SchoolFiles[selectedSchool][source])
  \/ \E i \in 1..MaxInFlight : ReadLoaded(i)
  \/ \E source \in Sources : RemoveFile(source)
  \/ \E i \in 1..Len(REQUIRED_FIELDS) : SetMapping("control", i)
  \/ RunAnalysis
  \/ ToggleSelectAll
  \/ \E id \in rowIds(tableRows), status \in {"verified", "failed"} :
       RowAuditAction(id, status)
  \/ \E status \in {"verified", "failed"} : BulkAuditAction(status)
  \/ AutoSmartCheck
  \/ \E confirmed \in BOOLEAN : HandleClearData(confirmed)

SpecIsolation == InitSchools /\ [][NextIsolation]_vars

\* The engine on every pair of files of at most MaxSoftlandRows and
\* MaxControlRows rows drawn from EngineRows.
EngineRows == {SoftRow1, SoftRow2, SoftRow4, SoftRow5, SoftRow6}

MaxSoftlandRows == 3

MaxControlRows == 2

filesOf(name, rows, n) ==
  {[name |-> name, data |-> d, headers |-> Headers] :
     d \in UNION {[1..k -> rows] : k \in 0..n}}

InitEngine ==
  \E softland \in filesOf("softland.xlsx", EngineRows, MaxSoftlandRows),
     control \in filesOf("control.csv", EngineRows, MaxControlRows) :
       Prepared([s \in SchoolIds |->
                   IF s = SCHOOLS[1] THEN prepared(softland, control)
                   ELSE INITIAL_SCHOOL_STATE])

NextEngine ==
  \/ RunAnalysis
  \/ GenerateAiReport
  \/ \E ok \in BOOLEAN : AiReportDone(ok)

SpecEngine == InitEngine /\ [][NextEngine]_vars

\* rows at the edge of the validator: an invoice number of zeros only, and
\* amounts that are zero, not a number, negative, empty, and one peso
ZeroFolioRow == [SoftRow1 EXCEPT !.Folio = <<"0", "0">>]

ZeroAmountRow == [SoftRow1 EXCEPT !.Folio = <<"2", "1">>, !.Total = <<"0">>]

TextAmountRow == [SoftRow1 EXCEPT !.Folio = <<"2", "2">>, !.Total = <<"s", "/", "m">>]

NegativeAmountRow ==
  [SoftRow1 EXCEPT !.Folio = <<"2", "3">>, !.Total = <<"-", "5", "0", "0">>]

NoAmountRow == [SoftRow1 EXCEPT !.Folio = <<"2", "4">>, !.Total = <<>>]

UnitAmountRow == [SoftRow1 EXCEPT !.Folio = <<"2", "5">>, !.Total = <<"$", " ", "1">>]

EdgeRows ==
  {SoftRow1, ZeroFolioRow, ZeroAmountRow, TextAmountRow, NegativeAmountRow,
   NoAmountRow, UnitAmountRow}

\* One school whose Softland file holds rows at the edge of the validator and
\* whose register holds a regular row, the row of zeros, or both.
InitEdge ==
  \E softland \in filesOf("softland.xlsx", EdgeRows, MaxSoftlandRows),
     control \in filesOf("control.csv", {SoftRow1, ZeroFolioRow}, MaxControlRows) :
       Prepared([s \in SchoolIds |->
                   IF s = SCHOOLS[1] THEN prepared(softland, control)
                   ELSE INITIAL_SCHOOL_STATE])

NextEdge == RunAnalysis

SpecEdge == InitEdge /\ [][NextEdge]_vars

\* ------------------------------------------------------ monthly statistics

\* dateStr.split(/[-/]/)
RECURSIVE split(_)
split(s) ==
  IF \A i \in 1..Len(s) : s[i] \notin {"-", "/"} THEN <<s>>
  ELSE LET i == CHOOSE j \in 1..Len(s) :
                  /\ s[j] \in {"-", "/"}
                  /\ \A k \in 1..(j - 1) : s[k] \notin {"-", "/"}
       IN <<SubSeq(s, 1, i - 1)>> \o split(SubSeq(s, i + 1, Len(s)))

Desconocido == <<"D", "e", "s", "c", "o", "n", "o", "c", "i", "d", "o">>

\* a faulty variant of monthYear that takes every date for YYYY-MM-DD
monthYearOfFirstParts(dateStr) ==
  LET parts == split(dateStr)
  IN IF Len(parts) = 3 THEN parts[1] \o <<"-">> \o parts[2] ELSE Desconocido

\* the bucket MonthlyStats puts a date in
monthYear(dateStr) ==
  LET parts == split(dateStr)
  IN IF Len(parts) = 3
     THEN IF Len(parts[1]) = 4
          THEN parts[1] \o <<"-">> \o parts[2]
          ELSE parts[3] \o <<"-">> \o parts[2]
     ELSE Desconocido

\* records.forEach(r => { ... grouped[monthYear].count++; ... })
RECURSIVE groupByMonth(_, _)
groupByMonth(records, grouped) ==
  IF records = <<>> THEN grouped
  ELSE LET r == Head(records)
           key == monthYear(IF "fecha_val" \in DOMAIN r THEN r.fecha_val ELSE <<>>)
           old == IF key \in DOMAIN grouped THEN grouped[key]
                  ELSE [count |-> 0, total |-> 0]
       IN groupByMonth(Tail(records),
            [k \in DOMAIN grouped \cup {key} |->
               IF k = key
               THEN [count |-> old.count + 1,
                     total |-> old.total + parseAmount(r.monto_val)]
               ELSE grouped[k]])

Alphabet ==
  <<"a", "b", "c", "d", "e", "f", "g", "h", "i", "j", "k", "l", "m", "n",
    "o", "p", "q", "r", "s", "t", "u", "v", "w", "x", "y", "z">>

\* the place of a character in the collation: punctuation, digits, letters
collationRank(c) ==
  LET l == toLowerCaseChar(c)
      base == IF l = "e^" THEN "e" ELSE IF l = "i^" THEN "i" ELSE l
  IN IF c \in Digits THEN 10 + DigitVal(c)
     ELSE IF \E i \in 1..Len(Alphabet) : Alphabet[i] = base
          THEN 100 + (CHOOSE i \in 1..Len(Alphabet) : Alphabet[i] = base)
          ELSE 0

\* a.localeCompare(b): negative, zero or positive
RECURSIVE localeCompare(_, _)
localeCompare(a, b) ==
  IF a = <<>> THEN (IF b = <<>> THEN 0 ELSE -1)
  ELSE IF b = <<>> THEN 1
  ELSE IF collationRank(Head(a)) < collationRank(Head(b)) THEN -1
  ELSE IF collationRank(Head(a)) > collationRank(Head(b)) THEN 1
  ELSE localeCompare(Tail(a), Tail(b))

\* Object.entries(grouped).sort((a,b) => a[0].localeCompare(b[0]))
RECURSIVE sortedEntries(_, _)
sortedEntries(grouped, keys) ==
  IF keys = {} THEN <<>>
  ELSE LET first == CHOOSE k \in keys : \A o \in keys : localeCompare(k, o) <= 0
       IN <<[key |-> first, count |-> grouped[first].count,
             total |-> grouped[first].total]>>
          \o sortedEntries(grouped, keys \ {first})

\* the stats MonthlyStats computes for the records it is given
MonthlyStats(records) ==
  LET grouped == groupByMonth(records, <<>>)
  IN sortedEntries(grouped, DOMAIN grouped)

\* The validator on its own: isValidDataRow called once on every row and
\* mapping built from one choice of cell for each required field.

\* a field the mapping leaves out, and a column the row does not have
UNMAPPED == <<"unmapped">>

ABSENT == <<"absent">>

CellChoices ==
  [factura |->
     {UNMAPPED,
      ABSENT,
      <<>>,
      <<"0">>,
      <<" ", "0", " ">>,
      <<"n", "a", "n">>,
      <<"n", "u", "l", "l">>,
      <<"N", "a", "N">>,
      <<"1", "0", "4", "5">>},
   rut |->
     {ABSENT,
      <<"1", "2", "3", "4", "-", "5">>,
      <<"1", "2", ".", "3", "4", "5", ".", "6", "7", "8", "-", "5">>,
      <<"1", "2", ".", "3", "4", "5", ".", "6", "7", "8", "-", "9">>,
      <<" ", "9", "8", "7", "6", "5", "4", "3", "-", "k">>,
      <<"1", "2", "3", "4", " ", "5", "6", "7", "-", "5">>,
      <<"1", "2", "3", "4", "5", "6", "7", "8", "9", "0", "-", "1">>,
      <<"1", "2", "3", "4", "5", "6", "7", "8", "-", "X">>},
   monto |->
     {ABSENT,
      <<>>,
      <<"1", "0", ".", "0", "0", "0">>,
      <<"-", "5", "0", "0">>},
   nombre |->
     {UNMAPPED,
      <<>>,
      <<"A", "C", "M", "E", " ", "S", "P", "A">>,
      <<"T", "o", "t", "a", "l", "e", "s", " ", "d", "e", "l", " ", "P", "e", "r", "i^", "o", "d", "o">>,
      <<"P", "e", "r", "i", "o", "d", "o", " ", "2", "0", "2", "4">>},
   fecha |->
     {<<"0", "1", "/", "0", "1", "/", "2", "0", "2", "4">>},
   tipo |->
     {UNMAPPED,
      <<"3", "3">>,
      <<"3", "3", ".", "0">>,
      <<"6", "1">>,
      <<"6", "1", ".", "0">>,
      <<"6", " ", "1">>,
      <<"N", "C">>,
      <<"N", "o", "t", "a", " ", "D", "e^", "b", "i", "t", "o">>}]

Choices ==
  [factura : CellChoices.factura, rut : CellChoices.rut,
   monto : CellChoices.monto, nombre : CellChoices.nombre,
   fecha : CellChoices.fecha, tipo : CellChoices.tipo]

\* the row and the mapping a choice of cells stands for
rowOf(c) ==
  [h \in {headerFor[f] : f \in {g \in DOMAIN c : c[g] \notin {UNMAPPED, ABSENT}}} |->
     c[CHOOSE f \in DOMAIN c : headerFor[f] = h]]

mappingOf(c) ==
  [f \in {g \in DOMAIN c : c[g] # UNMAPPED} |-> headerFor[f]]

InitValidator ==
  /\ selectedSchool = SCHOOLS[1]
  /\ allSchoolsData = [s \in SchoolIds |-> INITIAL_SCHOOL_STATE]
  /\ uploaders = INITIAL_UPLOADERS
  /\ reads = <<>>
  /\ report = INITIAL_REPORT
  /\ view = NULL
  /\ last = [op |-> "init", ids |-> {}, status |-> "", school |-> SCHOOLS[1],
             alert |-> FALSE]
  /\ \E c \in Choices :
       call = [fn |-> "isValidDataRow", row |-> rowOf(c),
               mapping |-> mappingOf(c), result |-> NULL]

CallIsValidDataRow ==
  /\ call # NULL
  /\ call.fn = "isValidDataRow"
  /\ call.result = NULL
  /\ call' = [call EXCEPT !.result = <<isValidDataRow(call.row, call.mapping)>>]
  /\ UNCHANGED <<selectedSchool, allSchoolsData, uploaders, reads, report,
                 view, last>>

NextValidator == CallIsValidDataRow

SpecValidator == InitValidator /\ [][NextValidator]_vars

\* The monthly statistics on their own: MonthlyStats called once on every
\* list of at most MaxRecords records with a date of DateChoices and an
\* amount of AmountChoices.
MaxRecords == 2

DateChoices ==
  {<<>>,
   <<"1", "5", "/", "0", "3", "/", "2", "0", "2", "4">>,
   <<"2", "0", "/", "0", "3", "/", "2", "0", "2", "4">>,
   <<"2", "0", "2", "4", "-", "0", "3", "-", "2", "0">>,
   <<"0", "2", "-", "0", "1", "-", "2", "0", "2", "4">>,
   <<"0", "3", "/", "2", "0", "2", "4">>,
   <<"1", "/", "2", "/", "3", "/", "4">>}

AmountChoices == {<<"1", "0", "0", "0">>, <<"2", "0", "0", "0">>}

RecordChoices == [fecha_val : DateChoices, monto_val : AmountChoices]

InitMonthly ==
  /\ selectedSchool = SCHOOLS[1]
  /\ allSchoolsData = [s \in SchoolIds |-> INITIAL_SCHOOL_STATE]
  /\ uploaders = INITIAL_UPLOADERS
  /\ reads = <<>>
  /\ report = INITIAL_REPORT
  /\ view = NULL
  /\ last = [op |-> "init", ids |-> {}, status |-> "", school |-> SCHOOLS[1],
             alert |-> FALSE]
  /\ \E records \in UNION {[1..n -> RecordChoices] : n \in 0..MaxRecords} :
       call = [fn |-> "MonthlyStats", records |-> records, result |-> NULL]

CallMonthlyStats ==
  /\ call # NULL
  /\ call.fn = "MonthlyStats"
  /\ call.result = NULL
  /\ call' = [call EXCEPT !.result = <<MonthlyStats(call.records)>>]
  /\ UNCHANGED <<selectedSchool, allSchoolsData, uploaders, reads, report,
                 view, last>>

NextMonthly == CallMonthlyStats

SpecMonthly == InitMonthly /\ [][NextMonthly]_vars

\* The asynchronous operations of one school, each of which ends: a read
\* that was started calls back or fails, and an awaited promise settles.
NextLive ==
  \/ \E source \in Sources : HandleFile(source, sessionFile(source))
  \/ \E source \in Sources : HandleFileUnsupported(source)
  \/ \E i \in 1..MaxInFlight : ReadLoaded(i)
  \/ \E i \in 1..MaxInFlight : ReadFailed(i)
  \/ \E i \in 1..MaxInFlight : ReadError(i)
  \/ \E source \in Sources : RemoveFile(source)
  \/ RunAnalysis
  \/ GenerateAiReport
  \/ \E ok \in BOOLEAN : AiReportDone(ok)
  \/ ExportToExcel
  \/ \E ok \in BOOLEAN : ExportDone(ok)

\* the read in the i-th place ends, one way or another
ReadEnds(i) == ReadLoaded(i) \/ ReadFailed(i) \/ ReadError(i)

SpecLive ==
  /\ Init
  /\ [][NextLive]_vars
  /\ \A i \in 1..MaxInFlight : WF_vars(ReadEnds(i))
  /\ WF_vars(\E ok \in BOOLEAN : AiReportDone(ok))
  /\ WF_vars(\E ok \in BOOLEAN : ExportDone(ok))

\* ------------------------------------------------------------- properties

\* the analysis a school holds
analysisOf(s) == allSchoolsData[s].analysis[1]

\* the _key of every record of a list
keysOf(records) == {records[i]._key : i \in 1..Len(records)}

\* the sum of the integers the monto_val of the records spell
RECURSIVE SumAmounts(_)
SumAmounts(records) ==
  IF records = <<>> THEN 0
  ELSE parseInt(Head(records).monto_val)[1] + SumAmounts(Tail(records))

\* C1: the missingRecords runAnalysis stores are the validated Softland
\* records, in their original order, whose _key is the _key of no validated
\* Control record; nothing but the key decides.
C1_MissingIsKeyDifference ==
  last.op = "runAnalysis" =>
    LET a == analysisOf(last.school)
    IN a.missingRecords =
         SelectSeq(a.softlandRecords,
                   LAMBDA s : \A j \in 1..Len(a.controlRecords) :
                                 a.controlRecords[j]._key # s._key)

\* a run that leaves two records missing and matches a record whose amount
\* differs from the amount of the Control record with its key
C1_Witness ==
  /\ last.op = "runAnalysis"
  /\ LET a == analysisOf(last.school)
     IN /\ Len(a.missingRecords) >= 2
        /\ a.missingRecords[1] # a.missingRecords[2]
        /\ \E i \in 1..Len(a.softlandRecords), j \in 1..Len(a.controlRecords) :
             /\ a.softlandRecords[i]._key = a.controlRecords[j]._key
             /\ a.softlandRecords[i].monto_val # a.controlRecords[j].monto_val

\* C2: whenever a school holds an analysis, matchedCount + missingCount is
\* softlandTotal, the number of Softland records that passed the filter.
C2_CountsAddUp ==
  \A s \in SchoolIds :
     allSchoolsData[s].analysis # NULL =>
       /\ analysisOf(s).matchedCount + analysisOf(s).missingCount
            = analysisOf(s).softlandTotal
       /\ analysisOf(s).softlandTotal = Len(analysisOf(s).softlandRecords)

\* an analysis with matched records and missing ones
C2_Witness ==
  \E s \in SchoolIds :
     /\ allSchoolsData[s].analysis # NULL
     /\ analysisOf(s).matchedCount >= 1
     /\ analysisOf(s).missingCount >= 2
     /\ analysisOf(s).controlTotal # analysisOf(s).matchedCount

\* C3: whenever a school holds an analysis, after audit actions, report
\* generation and export too, missingCount is the length of missingRecords
\* and no record of missingRecords has the _key of a record of controlRecords.
C3_MissingConsistent ==
  \A s \in SchoolIds :
     allSchoolsData[s].analysis # NULL =>
       /\ analysisOf(s).missingCount = Len(analysisOf(s).missingRecords)
       /\ keysOf(analysisOf(s).missingRecords)
            \cap keysOf(analysisOf(s).controlRecords) = {}

\* an export ends after audit actions and a generated report that re-ordered
\* the discrepancies
C3_Witness ==
  /\ last.op = "exportDone"
  /\ currentData.analysis # NULL
  /\ report.aiReport # ""
  /\ DOMAIN currentData.auditState # {}
  /\ analysisOf(selectedSchool).controlRecords # <<>>
  /\ Len(analysisOf(selectedSchool).missingRecords) >= 2
  /\ analysisOf(selectedSchool).missingRecords[1]._originalIndex
       > analysisOf(selectedSchool).missingRecords[2]._originalIndex

\* C4: missingAmount is the sum of the integer monto_val of the records of
\* missingRecords, 0 when there is none; a matched record adds nothing.
C4_MissingAmountIsSum ==
  \A s \in SchoolIds :
     allSchoolsData[s].analysis # NULL =>
       analysisOf(s).missingAmount = SumAmounts(analysisOf(s).missingRecords)

\* an analysis with a matched record and two missing amounts
C4_Witness ==
  \E s \in SchoolIds :
     /\ allSchoolsData[s].analysis # NULL
     /\ analysisOf(s).matchedCount >= 1
     /\ Len(analysisOf(s).missingRecords) = 2
     /\ analysisOf(s).missingRecords[1].monto_val
          # analysisOf(s).missingRecords[2].monto_val
     /\ analysisOf(s).missingAmount > 0

\* C5: a school holds an analysis only if both its mappings map every
\* required field: the run cannot happen while a mapping is partial.
C5_RunNeedsCompleteMappings ==
  \A s \in SchoolIds :
     allSchoolsData[s].analysis # NULL =>
       /\ allMapped(allSchoolsData[s].softlandMapping)
       /\ allMapped(allSchoolsData[s].controlMapping)

\* C6: handleBulkAutoCheck gives a listed key of missingRecords the status
\* 'failed' exactly when a record of controlRecords carries the same invoice
\* number, leading zeros and surrounding blanks apart, whatever its tax ID
\* and amount, and 'verified' otherwise, whatever status the key had.
C6_AutoStatusByInvoice ==
  [][last'.op = "handleBulkAutoCheck" =>
       LET a == allSchoolsData[last'.school].analysis[1]
           new == allSchoolsData'[last'.school].auditState
       IN \A i \in 1..Len(a.missingRecords) :
            a.missingRecords[i]._key \in last'.ids =>
              /\ a.missingRecords[i]._key \in DOMAIN new
              /\ new[a.missingRecords[i]._key] =
                   IF \E j \in 1..Len(a.controlRecords) :
                        stripLeadingZeros(trim(a.controlRecords[j].factura_val))
                          = stripLeadingZeros(trim(a.missingRecords[i].factura_val))
                   THEN "failed"
                   ELSE "verified"]_vars

\* the automatic check has dismissed invoice 100, which the register holds
\* as 0100 under another tax ID, and confirmed an invoice the register lacks
C6_Witness ==
  /\ last.op = "handleBulkAutoCheck"
  /\ LET a == analysisOf(last.school)
         st == allSchoolsData[last.school].auditState
     IN /\ \E i \in 1..Len(a.missingRecords), j \in 1..Len(a.controlRecords) :
             /\ a.missingRecords[i]._key \in last.ids
             /\ st[a.missingRecords[i]._key] = "failed"
             /\ a.missingRecords[i].factura_val = <<"1", "0", "0">>
             /\ a.controlRecords[j].factura_val = <<"0", "1", "0", "0">>
             /\ a.controlRecords[j].rut_val # a.missingRecords[i].rut_val
        /\ \E i \in 1..Len(a.missingRecords) :
             /\ a.missingRecords[i]._key \in last.ids
             /\ st[a.missingRecords[i]._key] = "verified"

\* C7: handleAuditAction gives every listed key the status, whatever status
\* it had and whether or not it is the key of a discrepancy; every other key
\* keeps its status, and a key that had none still has none.
C7_SetStatusOverwrites ==
  [][last'.op = "handleAuditAction" =>
       LET old == allSchoolsData[last'.school].auditState
           new == allSchoolsData'[last'.school].auditState
       IN /\ \A k \in last'.ids : k \in DOMAIN new /\ new[k] = last'.status
          /\ DOMAIN new = DOMAIN old \cup last'.ids
          /\ \A k \in DOMAIN old \ last'.ids : new[k] = old[k]]_vars

\* a status was given to a key that is no discrepancy of the school, while
\* another key of the school kept its own
C7_Witness ==
  /\ last.op = "handleAuditAction"
  /\ \E k \in last.ids : k \notin keysOf(analysisOf(last.school).missingRecords)
  /\ \E k \in DOMAIN allSchoolsData[last.school].auditState :
       /\ k \notin last.ids
       /\ allSchoolsData[last.school].auditState[k] # last.status

\* C8: handleBulkAutoCheck skips a listed key that is the key of no record of
\* missingRecords, which keeps its status or stays without one, and leaves
\* every key outside the list as it was.
C8_AutoCheckFrame ==
  [][last'.op = "handleBulkAutoCheck" =>
       LET old == allSchoolsData[last'.school].auditState
           new == allSchoolsData'[last'.school].auditState
           missing == keysOf(allSchoolsData[last'.school].analysis[1].missingRecords)
       IN \A k \in DOMAIN old \cup DOMAIN new \cup last'.ids :
            (k \notin last'.ids \/ k \notin missing) =>
              /\ k \in DOMAIN new <=> k \in DOMAIN old
              /\ k \in DOMAIN old => new[k] = old[k]]_vars

\* the automatic check met a listed key that is no discrepancy of the school
\* and left it without a status, while a key outside the list has one
C8_Witness ==
  /\ last.op = "handleBulkAutoCheck"
  /\ \E k \in last.ids :
       /\ k \notin keysOf(analysisOf(last.school).missingRecords)
       /\ k \notin DOMAIN allSchoolsData[last.school].auditState
  /\ \E k \in DOMAIN allSchoolsData[last.school].auditState : k \notin last.ids

\* C9: while the report is shown its four figures follow the audit state of
\* the school: the entries that are 'verified', the entries that are
\* 'failed', missingCount less the latter, and the sum of monto_val over the
\* records of missingRecords whose status is not 'failed'.
C9_MetricsFollowAuditState ==
  ReportMounted(allSchoolsData, selectedSchool) =>
    LET a == analysisOf(selectedSchool)
        st == currentData.auditState
        verifiedKeys == {k \in DOMAIN st : st[k] = "verified"}
        failedKeys == {k \in DOMAIN st : st[k] = "failed"}
    IN view = <<[verified |-> Cardinality(verifiedKeys),
                 failed |-> Cardinality(failedKeys),
                 realMissing |-> a.missingCount - Cardinality(failedKeys),
                 realMissingAmount |->
                   SumAmounts(SelectSeq(a.missingRecords,
                                        LAMBDA r : r._key \notin failedKeys))]>>

\* the report shows a confirmed and a dismissed discrepancy
C9_Witness ==
  /\ ReportMounted(allSchoolsData, selectedSchool)
  /\ view # NULL
  /\ view[1].verified >= 1
  /\ view[1].failed >= 1
  /\ view[1].realMissingAmount > 0
  /\ view[1].realMissingAmount < analysisOf(selectedSchool).missingAmount

\* C10: handleClearData, confirmed, leaves the selected school in the initial
\* state: no file, empty mappings, no analysis, no audit decision, empty
\* searches; declined, it changes nothing.
C10_ClearResetsSchool ==
  [][last'.op = "handleClearData" =>
       IF last'.status = "confirmed"
       THEN /\ allSchoolsData'[selectedSchool] =
                 [softlandFile |-> <<>>, controlFile |-> <<>>,
                  softlandMapping |-> <<>>, controlMapping |-> <<>>,
                  analysis |-> <<>>, auditState |-> <<>>,
                  softlandSearch |-> <<>>, controlSearch |-> <<>>,
                  activeTab |-> "dashboard"]
            /\ \A s \in SchoolIds \ {selectedSchool} :
                 allSchoolsData'[s] = allSchoolsData[s]
       ELSE allSchoolsData' = allSchoolsData]_vars

\* a confirmed reset has emptied the school
C10_Witness ==
  /\ last.op = "handleClearData"
  /\ last.status = "confirmed"
  /\ allSchoolsData[last.school].analysis = NULL
  /\ allSchoolsData[last.school].softlandFile = NULL

\* the validator has been called and has returned
validated == call # NULL /\ call.fn = "isValidDataRow" /\ call.result # NULL

\* the text the validated row gives for a field, NULL when the mapping
\* leaves the field out or the row lacks the column
given(field) ==
  IF field \notin DOMAIN call.mapping THEN NULL
  ELSE IF call.mapping[field] \notin DOMAIN call.row THEN NULL
  ELSE <<call.row[call.mapping[field]]>>

\* the text of a field is there and is not the empty text
present(field) == given(field) # NULL /\ given(field)[1] # <<>>

\* C11: isValidDataRow returns a boolean for every row and mapping, rows
\* with missing, empty or unmapped fields included, and it returns false
\* when the invoice, tax ID, amount or supplier name is missing or empty.
C11_ValidatorTotal ==
  validated =>
    /\ call.result[1] \in BOOLEAN
    /\ (\E f \in {"factura", "rut", "monto", "nombre"} : ~present(f))
         => call.result[1] = FALSE

\* a row whose only fault is that the mapping has no invoice column
C11_Witness ==
  /\ validated
  /\ call.result[1] = FALSE
  /\ given("factura") = NULL
  /\ given("rut") = <<<<"1", "2", ".", "3", "4", "5", ".", "6", "7", "8", "-", "5">>>>
  /\ given("monto") = <<<<"1", "0", ".", "0", "0", "0">>>>
  /\ given("nombre") = <<<<"A", "C", "M", "E", " ", "S", "P", "A">>>>
  /\ given("tipo") = <<<<"3", "3">>>>

\* the validated row with another text in its invoice column
withInvoice(text) ==
  [h \in DOMAIN call.row |->
     IF h = call.mapping["factura"] THEN text ELSE call.row[h]]

\* the invoice texts the invoice rule rejects, after trimming
rejectedInvoices ==
  {<<>>, <<"0">>, <<"n", "a", "n">>, <<"n", "u", "l", "l">>}

\* the trimmed invoice text of the validated row
trimmedInvoice ==
  IF given("factura") = NULL THEN <<>> ELSE trim(given("factura")[1])

\* C12: a record whose trimmed invoice text is empty or exactly "0", "nan"
\* or "null" is rejected; with any other invoice text a record that passes
\* every other rule, that is one accepted with the invoice "1045", is
\* accepted, so "0" and "1045" get opposite verdicts on such a record.
C12_InvoiceRule ==
  validated =>
    IF trimmedInvoice \in rejectedInvoices THEN call.result[1] = FALSE
    ELSE isValidDataRow(withInvoice(<<"1", "0", "4", "5">>), call.mapping)
           => call.result[1] = TRUE

\* the invoice "0" is rejected on a row that "1045" makes valid
C12_Witness ==
  /\ validated
  /\ given("factura") = <<<<"0">>>>
  /\ call.result[1] = FALSE
  /\ isValidDataRow(withInvoice(<<"1", "0", "4", "5">>), call.mapping)

\* the excluded document type tokens and the furniture keywords
excludedTokens ==
  {<<"6", "1">>,
   <<"5", "6">>,
   <<"5", "2">>,
   <<"6", "0">>,
   <<"n", "c">>,
   <<"n", "/", "c">>,
   <<"n", "o", "t", "a", "c", "r", "e", "d", "i", "t", "o">>,
   <<"n", "o", "t", "a", "d", "e", "b", "i", "t", "o">>,
   <<"c", "r", "e", "d", "i", "t", "o">>,
   <<"d", "e", "b", "i", "t", "o">>,
   <<"c", "r", "e^", "d", "i", "t", "o">>,
   <<"d", "e^", "b", "i", "t", "o">>}

furnitureKeywords ==
  {<<"t", "o", "t", "a", "l">>,
   <<"s", "u", "b", "t", "o", "t", "a", "l">>,
   <<"s", "u", "m", "a">>,
   <<"l", "i", "b", "r", "o", " ", "d", "e", " ", "c", "o", "m", "p", "r", "a">>,
   <<"o", "r", "d", "e", "n", "a", "d", "o">>,
   <<"d", "e", "s", "d", "e", ":">>,
   <<"h", "a", "s", "t", "a", ":">>,
   <<"m", "o", "n", "e", "d", "a", ":">>,
   <<"p", "e", "r", "i", "o", "d", "o">>,
   <<"p", "e", "r", "i^", "o", "d", "o">>,
   <<"r", "e", "s", "u", "m", "e", "n">>}

\* the text of a field of the validated row, empty when it is not there
textOf(field) == IF given(field) = NULL THEN <<>> ELSE given(field)[1]

\* the document type lower-cased, without whitespace and without a
\* trailing ".0"
normalisedType ==
  LET t == removeChars(toLowerCase(textOf("tipo")), Whitespace)
  IN IF Len(t) >= 2 /\ SubSeq(t, Len(t) - 1, Len(t)) = <<".", "0">>
     THEN SubSeq(t, 1, Len(t) - 2)
     ELSE t

\* C13: a record whose normalised document type equals or contains an
\* excluded token, or whose supplier name contains a furniture keyword
\* whatever the case of its letters, is rejected whatever its other fields.
C13_ExcludedTypesAndFurniture ==
  (/\ validated
   /\ \/ \E t \in excludedTokens : includes(normalisedType, t)
      \/ \E kw \in furnitureKeywords :
            includes(toLowerCase(textOf("nombre")), kw))
    => call.result[1] = FALSE

\* a row whose every field but the supplier name "Periodo 2024" is valid
C13_Witness ==
  /\ validated
  /\ call.result[1] = FALSE
  /\ textOf("nombre") = <<"P", "e", "r", "i", "o", "d", "o", " ", "2", "0", "2", "4">>
  /\ textOf("factura") = <<"1", "0", "4", "5">>
  /\ textOf("rut") = <<"1", "2", ".", "3", "4", "5", ".", "6", "7", "8", "-", "5">>
  /\ textOf("monto") = <<"1", "0", ".", "0", "0", "0">>
  /\ textOf("tipo") = <<"3", "3">>

\* C14: when no Control record is valid, a run reports every valid Softland
\* record missing: missingCount = softlandTotal, matchedCount = 0 and
\* missingAmount is the sum of their amounts; the one row with invoice "1",
\* tax ID "12345678-5" and amount "10.000" against no Control row gives
\* missingCount = 1, missingAmount = 10000 and matchedCount = 0.
C14_EmptyControl ==
  (last.op = "runAnalysis" /\ analysisOf(last.school).controlTotal = 0) =>
    LET a == analysisOf(last.school)
        data == allSchoolsData[last.school]
    IN /\ a.missingCount = a.softlandTotal
       /\ a.matchedCount = 0
       /\ a.missingAmount = SumAmounts(a.softlandRecords)
       /\ (data.softlandFile[1].data = <<SoftRow6>>
            /\ data.controlFile[1].data = <<>>)
           => /\ a.softlandTotal = 1
              /\ a.missingCount = 1
              /\ a.missingAmount = 10000

\* the run of the one row against a register without rows
C14_Witness ==
  /\ last.op = "runAnalysis"
  /\ allSchoolsData[last.school].softlandFile[1].data = <<SoftRow6>>
  /\ allSchoolsData[last.school].controlFile[1].data = <<>>
  /\ analysisOf(last.school).missingCount = 1

\* the monthly statistics have been computed
aggregated == call # NULL /\ call.fn = "MonthlyStats" /\ call.result # NULL

\* the places of the separators '-' and '/' in a date
separators(d) == {i \in 1..Len(d) : d[i] \in {"-", "/"}}

\* the bucket of a date: year and month of a date of three parts, the year
\* being the first part when that has four characters and the third part
\* otherwise, and "Desconocido" for a date of any other shape
bucketOf(d) ==
  IF Cardinality(separators(d)) # 2
  THEN <<"D", "e", "s", "c", "o", "n", "o", "c", "i", "d", "o">>
  ELSE LET i == CHOOSE x \in separators(d) : \A y \in separators(d) : x <= y
           j == CHOOSE x \in separators(d) : \A y \in separators(d) : x >= y
           month == SubSeq(d, i + 1, j - 1)
       IN IF i = 5 THEN SubSeq(d, 1, 4) \o <<"-">> \o month
          ELSE SubSeq(d, j + 1, Len(d)) \o <<"-">> \o month

\* the records of the call that fall in a bucket
inBucket(key) ==
  {i \in 1..Len(call.records) : bucketOf(call.records[i].fecha_val) = key}

RECURSIVE sumOver(_)
sumOver(S) ==
  IF S = {} THEN 0
  ELSE LET i == CHOOSE x \in S : TRUE
       IN parseInt(call.records[i].monto_val)[1] + sumOver(S \ {i})

\* C15: MonthlyStats puts each record in exactly one bucket, the bucket of
\* its date; the count of a bucket is the number of its records and its
\* total the sum of their amounts; the buckets come in ascending key order.
C15_MonthlyBuckets ==
  aggregated =>
    LET stats == call.result[1]
    IN /\ \A i \in 1..Len(call.records) :
            Cardinality({b \in 1..Len(stats) :
                           stats[b].key = bucketOf(call.records[i].fecha_val)}) = 1
       /\ \A b \in 1..Len(stats) :
            /\ stats[b].count = Cardinality(inBucket(stats[b].key))
            /\ stats[b].count > 0
            /\ stats[b].total = sumOver(inBucket(stats[b].key))
       /\ \A b \in 1..(Len(stats) - 1) :
            localeCompare(stats[b].key, stats[b + 1].key) < 0

\* "15/03/2024" with 1000 and "20/03/2024" with 2000 give the one bucket
\* "2024-03" with count 2 and total 3000
C15_Witness ==
  /\ aggregated
  /\ call.records =
       <<[fecha_val |-> <<"1", "5", "/", "0", "3", "/", "2", "0", "2", "4">>,
          monto_val |-> <<"1", "0", "0", "0">>],
         [fecha_val |-> <<"2", "0", "/", "0", "3", "/", "2", "0", "2", "4">>,
          monto_val |-> <<"2", "0", "0", "0">>]>>
  /\ call.result[1] =
       <<[key |-> <<"2", "0", "2", "4", "-", "0", "3">>, count |-> 2,
          total |-> 3000]>>

\* C16: a report-generation request, from its start to its success or its
\* failure, leaves the AnalysisResult of every school, the order of its
\* missingRecords included, and every audit state exactly as they were.
C16_ReportLeavesReconciliation ==
  [][last'.op \in {"generateAiReport", "aiReportDone"}
       => allSchoolsData' = allSchoolsData]_vars

\* the reads in flight for one source of one school
pendingReads(school, source) ==
  {i \in 1..Len(reads) : reads[i].school = school /\ reads[i].source = source}

\* C17: no second request of an operation starts while an earlier one is in
\* flight: at most one file read is pending for each source of each school
\* (and at most one report request, which aiPending holds by construction).
C17_OnePendingRequest ==
  \A school \in SchoolIds, source \in Sources :
    Cardinality(pendingReads(school, source)) <= 1

\* C18: whenever a file read, a report request or an export has set its
\* flag (loading of an uploader, loadingAi, exporting), the flag is
\* eventually cleared, whether the operation succeeds or fails.
C18_FlagsEventuallyCleared ==
  /\ \A source \in Sources : uploaders[source] ~> ~uploaders[source]
  /\ report.loadingAi ~> ~report.loadingAi
  /\ report.exporting ~> ~report.exporting

\* the export button is on the page and takes a click
exportEnabled == PageEnabled /\ ReportMounted(allSchoolsData, selectedSchool)

\* an export has just failed
exportFailed ==
  last.op \in {"exportDone", "exportToExcelLatest"} /\ last.status = "error"

\* C19: a failure of an export shows an alert, leaves the AnalysisResult and
\* the audit state of every school unchanged, and leaves the export button
\* enabled.
C19_ExportFailureAlerts ==
  [][exportFailed' =>
       /\ last'.alert
       /\ allSchoolsData' = allSchoolsData
       /\ exportEnabled']_vars

countOfKey(records, key) ==
  Cardinality({i \in 1..Len(records) : records[i]._key = key})

\* C21: records that share a key are not merged: when k validated Softland
\* records share a key no Control record has, all k are in missingRecords,
\* and when one Control record or more has the key none of them is, so that
\* all k count as matched, however many Control records carry the key.
C21_DuplicatesKept ==
  last.op = "runAnalysis" =>
    LET a == analysisOf(last.school)
        matched == {i \in 1..Len(a.softlandRecords) :
                      countOfKey(a.controlRecords, a.softlandRecords[i]._key) >= 1}
    IN /\ \A key \in keysOf(a.softlandRecords) :
            countOfKey(a.missingRecords, key) =
              IF countOfKey(a.controlRecords, key) = 0
              THEN countOfKey(a.softlandRecords, key)
              ELSE 0
       /\ a.missingCount = Len(a.softlandRecords) - Cardinality(matched)
       /\ a.matchedCount = Cardinality(matched)

\* two Softland records of one key are both missing while a third record
\* is matched by two Control records of its key
C21_Witness ==
  /\ last.op = "runAnalysis"
  /\ LET a == analysisOf(last.school)
     IN /\ a.missingCount = 2
        /\ a.missingRecords[1]._key = a.missingRecords[2]._key
        /\ a.matchedCount = 1
        /\ Len(a.controlRecords) = 2
        /\ a.controlRecords[1]._key = a.controlRecords[2]._key

\* the validated row with another text in the column of a field
withField(field, text) ==
  [h \in DOMAIN call.row |->
     IF h = call.mapping[field] THEN text ELSE call.row[h]]

\* the tax ID of the validated row without '.' and '-', upper-cased, trimmed
normalisedTaxId == trim(toUpperCase(removeChars(textOf("rut"), {".", "-"})))

\* 7 to 9 decimal digits and then one check character, a digit or 'K'
taxIdShape(id) ==
  /\ Len(id) \in 8..10
  /\ \A i \in 1..(Len(id) - 1) : id[i] \in Digits
  /\ id[Len(id)] \in Digits \cup {"K"}

\* C22: the normalised tax ID of every record the validator accepts is 7 to
\* 9 digits and a check character that is a digit or 'K'; the check
\* character is not verified, so any tax ID of that shape is accepted on a
\* row that is accepted with the tax ID "12.345.678-5".
C22_TaxIdShape ==
  validated =>
    /\ call.result[1] = TRUE => taxIdShape(normalisedTaxId)
    /\ (/\ taxIdShape(normalisedTaxId)
        /\ isValidDataRow(
             withField("rut", <<"1", "2", ".", "3", "4", "5", ".", "6", "7",
                                "8", "-", "5">>), call.mapping))
         => call.result[1] = TRUE

\* an accepted record whose check digit 9 is not the modulo-11 digit of
\* 12.345.678
C22_Witness ==
  /\ validated
  /\ call.result[1] = TRUE
  /\ textOf("rut") = <<"1", "2", ".", "3", "4", "5", ".", "6", "7", "8", "-", "9">>

\* a text without its leading zeros
RECURSIVE withoutLeadingZeros(_)
withoutLeadingZeros(s) ==
  IF Len(s) > 0 /\ s[1] = "0" THEN withoutLeadingZeros(SubSeq(s, 2, Len(s)))
  ELSE s

\* the matching key the raw tax ID and invoice number of a record stand for
keyOfRaw(r) ==
  trim(toUpperCase(removeChars(r.rut_val, {".", "-"})))
    \o <<"_">> \o withoutLeadingZeros(trim(r.factura_val))

\* C23: the _key of every canonical record is its raw tax ID without '.'
\* and '-', upper-cased and trimmed, then "_", then its raw invoice number
\* trimmed and without leading zeros; so a Softland record whose tax ID and
\* invoice number differ from those of a Control record only in that way
\* has its key and is matched.  "12.345.678-5" gives "123456785" and
\* "00042" gives "42".
C23_KeyIsNormalisedPair ==
  /\ normalizeRut(<<"1", "2", ".", "3", "4", "5", ".", "6", "7", "8", "-", "5">>) = <<"1", "2", "3", "4", "5", "6", "7", "8", "5">>
  /\ normalizeInvoice(<<"0", "0", "0", "4", "2">>) = <<"4", "2">>
  /\ normalizeInvoice(<<>>) = <<>>
  /\ last.op = "runAnalysis" =>
       LET a == analysisOf(last.school)
       IN /\ \A i \in 1..Len(a.softlandRecords) :
               a.softlandRecords[i]._key = keyOfRaw(a.softlandRecords[i])
          /\ \A j \in 1..Len(a.controlRecords) :
               a.controlRecords[j]._key = keyOfRaw(a.controlRecords[j])
          /\ \A i \in 1..Len(a.softlandRecords), j \in 1..Len(a.controlRecords) :
               keyOfRaw(a.softlandRecords[i]) = keyOfRaw(a.controlRecords[j])
                 => \A m \in 1..Len(a.missingRecords) :
                      a.missingRecords[m] # a.softlandRecords[i]

\* invoice 100 of 12.345.678-5 is matched by invoice 0100 of 12345678-5
C23_Witness ==
  /\ last.op = "runAnalysis"
  /\ LET a == analysisOf(last.school)
     IN /\ a.matchedCount = 1
        /\ \E i \in 1..Len(a.softlandRecords), j \in 1..Len(a.controlRecords) :
             /\ a.softlandRecords[i].factura_val = <<"1", "0", "0">>
             /\ a.controlRecords[j].factura_val = <<"0", "1", "0", "0">>
             /\ a.softlandRecords[i].rut_val # a.controlRecords[j].rut_val
             /\ a.softlandRecords[i]._key = a.controlRecords[j]._key

\* C24: every key of the auditState of a school is the _key of a record of
\* the missingRecords of the analysis the school holds.
C24_AuditKeysAreMissingKeys ==
  \A s \in SchoolIds :
    DOMAIN allSchoolsData[s].auditState \subseteq
      (IF allSchoolsData[s].analysis = NULL THEN {}
       ELSE keysOf(analysisOf(s).missingRecords))

\* C25: while the report is shown, the record count under the real missing
\* amount is the number of records of missingRecords whose audit status is
\* not 'failed', the records the amount is summed over.
C25_RealMissingCountsRecords ==
  ReportMounted(allSchoolsData, selectedSchool) =>
    LET a == analysisOf(selectedSchool)
        st == currentData.auditState
    IN view[1].realMissing =
         Cardinality({i \in 1..Len(a.missingRecords) :
                        ~(/\ a.missingRecords[i]._key \in DOMAIN st
                          /\ st[a.missingRecords[i]._key] = "failed")})

\* C26: a school without an analysis has no audit decision: decisions are
\* made on the report only, and the clear that makes a new run possible
\* empties them.
C26_NoAuditWithoutAnalysis ==
  \A s \in SchoolIds :
    allSchoolsData[s].analysis = NULL => DOMAIN allSchoolsData[s].auditState = {}

\* a school just cleared, without analysis and without decisions, next to a
\* school that holds its decisions
C26_Witness ==
  /\ last.op = "handleClearData"
  /\ last.status = "confirmed"
  /\ allSchoolsData[last.school].analysis = NULL
  /\ DOMAIN allSchoolsData[last.school].auditState = {}
  /\ \E s \in SchoolIds : DOMAIN allSchoolsData[s].auditState # {}

\* 'verified' or 'failed' in the audit state of school s
decided(data, s) ==
  {k \in DOMAIN data[s].auditState :
     data[s].auditState[k] \in {"verified", "failed"}}

\* C27: a decision never goes back to pending: a key that is 'verified' or
\* 'failed' for a school stays 'verified' or 'failed' (possibly the other one)
\* in every step, except the confirmed clear of that school, which removes
\* every entry.
C27_DecisionsStay ==
  [][\A s \in SchoolIds :
       \/ decided(allSchoolsData, s) \subseteq decided(allSchoolsData', s)
       \/ /\ last'.op = "handleClearData"
          /\ last'.status = "confirmed"
          /\ last'.school = s
          /\ DOMAIN allSchoolsData'[s].auditState = {}]_vars

\* a bulk action has just dismissed rows of a school while an earlier
\* confirmation of another row is still there
C27_Witness ==
  /\ last.op = "handleAuditAction"
  /\ last.status = "failed"
  /\ last.ids # {}
  /\ \A k \in last.ids : allSchoolsData[last.school].auditState[k] = "failed"
  /\ \E k \in DOMAIN allSchoolsData[last.school].auditState :
       /\ k \notin last.ids
       /\ allSchoolsData[last.school].auditState[k] = "verified"

\* C28: the analysis of a school is the analysis of the files the school
\* holds: while analysis is not null both files are loaded and the run over
\* them, with the mappings of the school, gives that analysis.
C28_AnalysisOfLoadedFiles ==
  \A s \in SchoolIds :
    allSchoolsData[s].analysis # NULL =>
      /\ allSchoolsData[s].softlandFile # NULL
      /\ allSchoolsData[s].controlFile # NULL
      /\ allSchoolsData[s].analysis[1] =
           runAnalysis(allSchoolsData[s].softlandFile[1],
                       allSchoolsData[s].controlFile[1],
                       allSchoolsData[s].softlandMapping,
                       allSchoolsData[s].controlMapping)

\* the canonical records of the analysis of school s
canonical(s) ==
  {analysisOf(s).softlandRecords[i] : i \in 1..Len(analysisOf(s).softlandRecords)}
    \cup {analysisOf(s).controlRecords[i] : i \in 1..Len(analysisOf(s).controlRecords)}

\* C29: every canonical record has a normalized invoice number that is not
\* empty, so no matching key ends with the "_" that follows the tax ID.
C29_InvoiceNeverEmpty ==
  \A s \in SchoolIds :
    allSchoolsData[s].analysis # NULL =>
      \A r \in canonical(s) :
        /\ normalizeInvoice(r.factura_val) # <<>>
        /\ r._key[Len(r._key)] # "_"

\* the text of a strictly positive integer, as Number.prototype.toString
\* writes it
positiveInteger(text) ==
  /\ text # <<>>
  /\ \A i \in 1..Len(text) : text[i] \in Digits
  /\ text[1] # "0"

\* C30: monto_val of every canonical record is a strictly positive integer:
\* a row whose amount is missing, not a number, zero or negative is not
\* accepted.  So missingAmount is at least missingCount, and it is 0 exactly
\* when missingCount is 0.
C30_AmountsPositive ==
  \A s \in SchoolIds :
    allSchoolsData[s].analysis # NULL =>
      /\ \A r \in canonical(s) :
           /\ positiveInteger(r.monto_val)
           /\ parseAmount(r.monto_val) > 0
      /\ analysisOf(s).missingAmount >= analysisOf(s).missingCount
      /\ analysisOf(s).missingAmount = 0 <=> analysisOf(s).missingCount = 0

\* a run over a file of three rows, two with an amount that is zero, not a
\* number, negative or empty; the third, of one peso, is the missing record
C30_Witness ==
  /\ last.op = "runAnalysis"
  /\ Len(allSchoolsData[last.school].softlandFile[1].data) = 3
  /\ \E i \in 1..3 :
       allSchoolsData[last.school].softlandFile[1].data[i]
         \in {ZeroAmountRow, TextAmountRow, NoAmountRow}
  /\ \E i \in 1..3 :
       allSchoolsData[last.school].softlandFile[1].data[i] = NegativeAmountRow
  /\ analysisOf(last.school).softlandTotal = 1
  /\ analysisOf(last.school).missingCount = 1
  /\ analysisOf(last.school).missingAmount = 1

====
